---- MODULE Spec2Model ----
(***************************************************************************)
(* Build-backend reconciliation of python-polylith's workspace component. *)
(* Python str values are sequences of one-character strings, so that      *)
(* substring containment, concatenation and equality are computed as the  *)
(* code computes them.  Dictionary keys are TLA+ strings.                  *)
(***************************************************************************)
EXTENDS Integers, Sequences, FiniteSets, TLC

VARIABLES pyproject, path, log, probe, marker, lock_dir, argv, tty, cw, tree

vars == <<pyproject, path, log, probe, marker, lock_dir, argv, tty, cw, tree>>

\* The directory besides pyproject.toml, the process, and the progress of
\* create_workspace.
wsvars == <<marker, lock_dir, argv, tty, cw, tree>>

(* ------------------------------ bounds --------------------------------- *)
MaxCalls == 2
MaxPad == 1
\* The answers create_workspace reads in one run.
MaxInputs == 3

(* --------------------------- string literals --------------------------- *)
TokPoetry == <<"p", "o", "e", "t", "r", "y">>
TokHatchling == <<"h", "a", "t", "c", "h", "l", "i", "n", "g">>
TokPdm == <<"p", "d", "m">>
IdHatchling == <<"h", "a", "t", "c", "h", "l", "i", "n", "g">>
IdPoetryCore == <<"p", "o", "e", "t", "r", "y", "-", "c", "o", "r", "e">>
IdPdmBackend == <<"p", "d", "m", "-", "b", "a", "c", "k", "e", "n", "d">>
IdNone == <<"n", "o", "n", "e">>
BeHatchling == <<"h", "a", "t", "c", "h", "l", "i", "n", "g", ".", "b", "u", "i", "l", "d">>
BePoetryCore == <<"p", "o", "e", "t", "r", "y", ".", "c", "o", "r", "e", ".", "m", "a", "s", "o", "n", "r", "y", ".", "a", "p", "i">>
BePdm == <<"p", "d", "m", ".", "b", "a", "c", "k", "e", "n", "d">>
MsgNoPyproject == <<"N", "o", " ", "p", "y", "p", "r", "o", "j", "e", "c", "t", ".", "t", "o", "m", "l", " ", "f", "o", "u", "n", "d", " ", "a", "t", " ">>
MsgRun == <<".", " ", "R", "u", "n", " ", "BACKTICK">>
MsgFirst == <<"BACKTICK", " ", "f", "i", "r", "s", "t", " ", "t", "o", " ", "c", "r", "e", "a", "t", "e", " ", "t", "h", "e", " ", "p", "r", "o", "j", "e", "c", "t", " ", "c", "o", "n", "f", "i", "g", "u", "r", "a", "t", "i", "o", "n", ".">>
MsgConflicting == <<"C", "o", "n", "f", "l", "i", "c", "t", "i", "n", "g", " ", "b", "a", "c", "k", "e", "n", "d", " ", "c", "o", "n", "f", "i", "g", "u", "r", "a", "t", "i", "o", "n", " ", "i", "n", " ">>
MsgExisting == <<":", " ", "e", "x", "i", "s", "t", "i", "n", "g", " ">>
MsgBut == <<",", " ", "b", "u", "t", " ">>
MsgRequires == <<" ", "r", "e", "q", "u", "i", "r", "e", "s", " ">>
MsgManual == <<".", " ", "M", "a", "n", "u", "a", "l", " ", "c", "o", "n", "f", "i", "g", "u", "r", "a", "t", "i", "o", "n", " ", "r", "e", "q", "u", "i", "r", "e", "d", ".">>
MsgIncompatible == <<"I", "n", "c", "o", "m", "p", "a", "t", "i", "b", "l", "e", " ", "b", "a", "c", "k", "e", "n", "d", "s">>
MsgNew == <<",", " ", "n", "e", "w", " ">>
MsgInvalidToml == <<"I", "n", "v", "a", "l", "i", "d", " ", "T", "O", "M", "L", " ", "s", "y", "n", "t", "a", "x", " ", "i", "n", " ">>
MsgColon == <<":", " ">>
MsgParseError == <<"p", "a", "r", "s", "e", " ", "e", "r", "r", "o", "r">>
PyprojectFileName == <<"/", "p", "y", "p", "r", "o", "j", "e", "c", "t", ".", "t", "o", "m", "l">>
BeUnknown == <<"u", "n", "k", "n", "o", "w", "n", ".", "b", "a", "c", "k", "e", "n", "d", ".", "a", "p", "i">>
BeLiteralNone == <<"n", "o", "n", "e">>
BeUpperHatchling == <<"H", "a", "t", "c", "h", "l", "i", "n", "g", ".", "B", "u", "i", "l", "d">>
BePdmPoetry == <<"p", "d", "m", ".", "p", "o", "e", "t", "r", "y">>
BeHatchlingPdm == <<"h", "a", "t", "c", "h", "l", "i", "n", "g", ".", "p", "d", "m">>
NameDemo == <<"d", "e", "m", "o">>
NameWs == <<"w", "s">>
Version010 == <<"0", ".", "1", ".", "0">>
ReqStale == <<"u", "n", "k", "n", "o", "w", "n", "-", "b", "a", "c", "k", "e", "n", "d">>
DirSrc == <<"s", "r", "c">>
MsgUnsupportedPm == <<"U", "n", "s", "u", "p", "p", "o", "r", "t", "e", "d", " ", "p", "a", "c", "k", "a", "g", "e", " ", "m", "a", "n", "a", "g", "e", "r", " ", "'">>
MsgValidOptions == <<"'", ".", " ", "V", "a", "l", "i", "d", " ", "o", "p", "t", "i", "o", "n", "s", ":", " ">>
MsgCommandFailed == <<"C", "o", "m", "m", "a", "n", "d", " ", "f", "a", "i", "l", "e", "d", ":", " ">>
MsgCommandTimedOut == <<"C", "o", "m", "m", "a", "n", "d", " ", "t", "i", "m", "e", "d", " ", "o", "u", "t", ":", " ">>
MsgCommandNotFound == <<"C", "o", "m", "m", "a", "n", "d", " ", "n", "o", "t", " ", "f", "o", "u", "n", "d", ":", " ">>
TmpDir == <<"/", "t", "m", "p", "/">>

(* ------------------------------ str helpers ---------------------------- *)
\* The str operator in: needle occurs in hay.  (The one-character string
\* holding a backquote is written "BACKTICK".)
Contains(hay, needle) ==
    \E i \in 0..(Len(hay) - Len(needle)) :
        SubSeq(hay, i + 1, i + Len(needle)) = needle

RECURSIVE Repeat(_, _)
Repeat(c, n) == IF n = 0 THEN <<>> ELSE <<c>> \o Repeat(c, n - 1)

\* str(path) for the workspace directory whose last component is name.
PathStr(name) == TmpDir \o name

(* ------------------------------ build backends ------------------------- *)
\* A backend object: its class and, for UnsupportedBuildBackend, the
\* identifier given to the constructor.
HatchlingBackend == [cls |-> "HatchlingBackend", identifier |-> <<>>]
PoetryCoreBackend == [cls |-> "PoetryCoreBackend", identifier |-> <<>>]
PdmBackend == [cls |-> "PdmBackend", identifier |-> <<>>]
NoBuildBackend == [cls |-> "NoBuildBackend", identifier |-> <<>>]
UnsupportedBuildBackend(s) == [cls |-> "UnsupportedBuildBackend", identifier |-> s]

ConcreteBackends == {HatchlingBackend, PoetryCoreBackend, PdmBackend}

get_identifier(b) ==
    CASE b.cls = "HatchlingBackend" -> IdHatchling
      [] b.cls = "PoetryCoreBackend" -> IdPoetryCore
      [] b.cls = "PdmBackend" -> IdPdmBackend
      [] b.cls = "NoBuildBackend" -> IdNone
      [] b.cls = "UnsupportedBuildBackend" -> b.identifier

get_enum(b) ==
    CASE b.cls = "HatchlingBackend" -> "HATCHLING"
      [] b.cls = "PoetryCoreBackend" -> "POETRY_CORE"
      [] b.cls = "PdmBackend" -> "PDM_BACKEND"
      [] b.cls = "NoBuildBackend" -> "NONE"
      [] b.cls = "UnsupportedBuildBackend" -> "UNSUPPORTED"

\* BuildBackend.is_compatible_with, inherited by the three concrete classes.
BuildBackend_is_compatible_with(self, other) ==
    get_identifier(other) = get_identifier(self)

\* Variant: the class inherits the identifier comparison.
UnsupportedBuildBackend_is_compatible_with_inherited(self, other) ==
    BuildBackend_is_compatible_with(self, other)

UnsupportedBuildBackend_is_compatible_with(self, other) == FALSE

\* Variant: absence is compatible with everything.
NoBuildBackend_is_compatible_with_always(self, other) == TRUE

NoBuildBackend_is_compatible_with(self, other) == FALSE

\* Method dispatch on the receiver's class.
is_compatible_with(self, other) ==
    CASE self.cls = "UnsupportedBuildBackend" ->
            UnsupportedBuildBackend_is_compatible_with(self, other)
      [] self.cls = "NoBuildBackend" ->
            NoBuildBackend_is_compatible_with(self, other)
      [] OTHER -> BuildBackend_is_compatible_with(self, other)

\* The part of get_build_backend that works on a BuildBackendEnum member.
get_build_backend_enum(backend_enum) ==
    IF backend_enum = "NONE" THEN NoBuildBackend
    ELSE IF backend_enum = "UNSUPPORTED"
    THEN UnsupportedBuildBackend(<<"u","n","s","u","p","p","o","r","t","e","d">>)
    ELSE CASE backend_enum = "HATCHLING" -> HatchlingBackend
           [] backend_enum = "POETRY_CORE" -> PoetryCoreBackend
           [] backend_enum = "PDM_BACKEND" -> PdmBackend

\* Variant: a string is classified by equality with a backend's identifier.
get_build_backend_by_identifier(backend) ==
    IF backend = <<>> THEN NoBuildBackend
    ELSE IF backend = IdPoetryCore THEN get_build_backend_enum("POETRY_CORE")
    ELSE IF backend = IdHatchling THEN get_build_backend_enum("HATCHLING")
    ELSE IF backend = IdPdmBackend THEN get_build_backend_enum("PDM_BACKEND")
    ELSE UnsupportedBuildBackend(backend)

\* Variant: the pdm token is looked for before the poetry token.
get_build_backend_pdm_first(backend) ==
    IF backend = <<>> THEN NoBuildBackend
    ELSE IF Contains(backend, TokPdm) THEN get_build_backend_enum("PDM_BACKEND")
    ELSE IF Contains(backend, TokPoetry) THEN get_build_backend_enum("POETRY_CORE")
    ELSE IF Contains(backend, TokHatchling) THEN get_build_backend_enum("HATCHLING")
    ELSE UnsupportedBuildBackend(backend)

\* get_build_backend for a str argument.
get_build_backend(backend) ==
    IF backend = <<>> THEN NoBuildBackend
    ELSE IF Contains(backend, TokPoetry) THEN get_build_backend_enum("POETRY_CORE")
    ELSE IF Contains(backend, TokHatchling) THEN get_build_backend_enum("HATCHLING")
    ELSE IF Contains(backend, TokPdm) THEN get_build_backend_enum("PDM_BACKEND")
    ELSE UnsupportedBuildBackend(backend)

(* ------------------------------ TOML values ---------------------------- *)
\* A value is a str, a list of str, or a table (dict); a dict is the
\* sequence of its items in insertion order.
StrV(s) == [kind |-> "str", str |-> s, list |-> <<>>, items |-> <<>>]
ListV(l) == [kind |-> "list", str |-> <<>>, list |-> l, items |-> <<>>]
TableV(d) == [kind |-> "table", str |-> <<>>, list |-> <<>>, items |-> d]
Item(k, v) == [key |-> k, val |-> v]

IsDict(v) == v.kind = "table"

\* Python truthiness of a value.
Truthy(v) ==
    CASE v.kind = "str" -> v.str # <<>>
      [] v.kind = "list" -> v.list # <<>>
      [] v.kind = "table" -> v.items # <<>>

Keys(d) == {d[i].key : i \in 1..Len(d)}
HasKey(d, k) == k \in Keys(d)
IndexOf(d, k) == CHOOSE i \in 1..Len(d) : d[i].key = k
Get(d, k) == d[IndexOf(d, k)].val
\* d[k] = v : an existing key keeps its position, a new key goes last.
SetKey(d, k, v) ==
    IF HasKey(d, k)
    THEN [i \in 1..Len(d) |-> IF d[i].key = k THEN Item(k, v) ELSE d[i]]
    ELSE Append(d, Item(k, v))

\* A value of the target that is no table stays when the source holds a
\* table at the key, and the other way round.
RECURSIVE _deep_merge_dict_same_type_only(_, _)
_deep_merge_dict_same_type_only(target, source) ==
    IF source = <<>> THEN target
    ELSE LET key == Head(source).key
             value == Head(source).val
             merged ==
                 IF ~HasKey(target, key) THEN SetKey(target, key, value)
                 ELSE IF IsDict(value) /\ IsDict(Get(target, key))
                      THEN SetKey(target, key,
                             TableV(_deep_merge_dict_same_type_only(
                                        Get(target, key).items, value.items)))
                      ELSE IF IsDict(value) # IsDict(Get(target, key)) THEN target
                      ELSE SetKey(target, key, value)
         IN _deep_merge_dict_same_type_only(merged, Tail(source))

RECURSIVE _deep_merge_dict(_, _)
_deep_merge_dict(target, source) ==
    IF source = <<>> THEN target
    ELSE LET key == Head(source).key
             value == Head(source).val
             merged ==
                 IF ~HasKey(target, key) THEN SetKey(target, key, value)
                 ELSE IF IsDict(value) /\ IsDict(Get(target, key))
                      THEN SetKey(target, key,
                             TableV(_deep_merge_dict(Get(target, key).items,
                                                     value.items)))
                      ELSE SetKey(target, key, value)
         IN _deep_merge_dict(merged, Tail(source))

(* ------------------------- generate_config ----------------------------- *)
\* The hatchling fragment without the project root among the dev-mode
\* directories.
HatchlingBackend_generate_config_without_root ==
    << Item("build-system", TableV(<<
           Item("requires", ListV(<<IdHatchling>>)),
           Item("build-backend", StrV(BeHatchling)) >>)),
       Item("tool", TableV(<<
           Item("hatch", TableV(<<
               Item("build", TableV(<<
                   Item("dev-mode-dirs",
                        ListV(<< <<"c","o","m","p","o","n","e","n","t","s">>,
                                 <<"b","a","s","e","s">>,
                                 <<"d","e","v","e","l","o","p","m","e","n","t">> >>))
                   >>)) >>)) >>)) >>

HatchlingBackend_generate_config ==
    << Item("build-system", TableV(<<
           Item("requires", ListV(<<IdHatchling>>)),
           Item("build-backend", StrV(BeHatchling)) >>)),
       Item("tool", TableV(<<
           Item("hatch", TableV(<<
               Item("build", TableV(<<
                   Item("dev-mode-dirs",
                        ListV(<< <<"c","o","m","p","o","n","e","n","t","s">>,
                                 <<"b","a","s","e","s">>,
                                 <<"d","e","v","e","l","o","p","m","e","n","t">>,
                                 <<".">> >>)) >>)) >>)) >>)) >>

PoetryCoreBackend_generate_config ==
    << Item("build-system", TableV(<<
           Item("requires", ListV(<<IdPoetryCore>>)),
           Item("build-backend", StrV(BePoetryCore)) >>)) >>

PdmBackend_generate_config ==
    << Item("build-system", TableV(<<
           Item("requires", ListV(<<IdPdmBackend>>)),
           Item("build-backend", StrV(BePdm)) >>)) >>

\* [exc, msg, config]: the two placeholder classes raise ValueError.
generate_config(b) ==
    CASE b.cls = "HatchlingBackend" ->
            [exc |-> "none", msg |-> <<>>, config |-> HatchlingBackend_generate_config]
      [] b.cls = "PoetryCoreBackend" ->
            [exc |-> "none", msg |-> <<>>, config |-> PoetryCoreBackend_generate_config]
      [] b.cls = "PdmBackend" ->
            [exc |-> "none", msg |-> <<>>, config |-> PdmBackend_generate_config]
      [] b.cls = "UnsupportedBuildBackend" ->
            [exc |-> "ValueError",
             msg |-> <<"B","u","i","l","d"," ","b","a","c","k","e","n","d"," ","'">>
                     \o b.identifier
                     \o <<"'"," ","i","s"," ","n","o","t"," ","s","u","p","p","o","r","t","e","d">>,
             config |-> <<>>]
      [] b.cls = "NoBuildBackend" ->
            [exc |-> "ValueError",
             msg |-> <<"N","o"," ","b","u","i","l","d"," ","b","a","c","k","e","n","d">>,
             config |-> <<>>]

(* ------------------------- PyProjectTOMLManager ------------------------ *)
\* The file pyproject.toml: absent, unparsable text, or the text of a
\* document.  An existing file without content is the document <<>>.
AbsentFile == [kind |-> "absent", doc |-> <<>>]
MalformedFile == [kind |-> "malformed", doc |-> <<>>]
TomlFile(d) == [kind |-> "toml", doc |-> d]

\* write_content: the file afterwards holds the text of content.
write_content(content) == TomlFile(content)

\* Variant: a parse error is swallowed and the manifest taken for empty.
from_file_lenient(file, name) ==
    IF file.kind = "toml" THEN [exc |-> "none", msg |-> <<>>, content |-> file.doc]
    ELSE [exc |-> "none", msg |-> <<>>, content |-> <<>>]

\* from_file: [exc, msg, content]
from_file(file, name) ==
    IF file.kind = "absent" THEN [exc |-> "none", msg |-> <<>>, content |-> <<>>]
    ELSE IF file.kind = "malformed"
         THEN [exc |-> "ValueError",
               msg |-> MsgInvalidToml \o PathStr(name) \o PyprojectFileName
                       \o MsgColon \o MsgParseError,
               content |-> <<>>]
         ELSE [exc |-> "none", msg |-> <<>>, content |-> file.doc]

\* detect_build_backend: [exc, backend].  build_system.get on a non-empty
\* str or list raises AttributeError; a build-backend that is a list or a
\* table is unhashable in the factory's mapping lookup (TypeError).
detect_build_backend(content) ==
    IF ~HasKey(content, "build-system") \/ ~Truthy(Get(content, "build-system"))
    THEN [exc |-> "none", backend |-> get_build_backend(<<>>)]
    ELSE LET build_system == Get(content, "build-system") IN
         IF ~IsDict(build_system)
         THEN [exc |-> "AttributeError", backend |-> NoBuildBackend]
         ELSE IF ~HasKey(build_system.items, "build-backend")
              THEN [exc |-> "none", backend |-> get_build_backend(<<>>)]
              ELSE LET build_backend == Get(build_system.items, "build-backend") IN
                   IF build_backend.kind = "str"
                   THEN [exc |-> "none", backend |-> get_build_backend(build_backend.str)]
                   ELSE [exc |-> "TypeError", backend |-> NoBuildBackend]

\* Variant: lists of the new configuration are added to existing lists.
RECURSIVE deep_merge_dict_extending(_, _)
deep_merge_dict_extending(target, source) ==
    IF source = <<>> THEN target
    ELSE LET key == Head(source).key
             value == Head(source).val
             merged ==
                 IF ~HasKey(target, key) THEN SetKey(target, key, value)
                 ELSE IF IsDict(value) /\ IsDict(Get(target, key))
                      THEN SetKey(target, key,
                             TableV(deep_merge_dict_extending(Get(target, key).items,
                                                              value.items)))
                      ELSE IF value.kind = "list" /\ Get(target, key).kind = "list"
                           THEN SetKey(target, key,
                                       ListV(Get(target, key).list \o value.list))
                           ELSE SetKey(target, key, value)
         IN deep_merge_dict_extending(merged, Tail(source))

merge_config_extending(content, new_config) ==
    deep_merge_dict_extending(content, new_config)

\* Variant: dict.update, top-level keys of the new configuration replace
\* the existing ones.
RECURSIVE dict_update(_, _)
dict_update(target, source) ==
    IF source = <<>> THEN target
    ELSE dict_update(SetKey(target, Head(source).key, Head(source).val), Tail(source))

merge_config_shallow(content, new_config) == dict_update(content, new_config)

merge_config(content, new_config) == _deep_merge_dict(content, new_config)

\* merge_backend_if_compatible: [exc, msg, content]
merge_backend_if_compatible(content, new_backend) ==
    LET existing == detect_build_backend(content) IN
    IF existing.exc # "none"
    THEN [exc |-> existing.exc, msg |-> <<>>, content |-> content]
    ELSE LET existing_backend == existing.backend IN
         IF ~is_compatible_with(existing_backend, new_backend)
            /\ get_identifier(existing_backend) # IdNone
         THEN [exc |-> "ValueError",
               msg |-> MsgIncompatible \o MsgExisting
                       \o get_identifier(existing_backend)
                       \o MsgNew \o get_identifier(new_backend),
               content |-> content]
         ELSE LET new_config == generate_config(new_backend) IN
              IF new_config.exc # "none"
              THEN [exc |-> new_config.exc, msg |-> new_config.msg, content |-> content]
              ELSE [exc |-> "none", msg |-> <<>>,
                    content |-> merge_config(content, new_config.config)]

is_empty(content) == content = <<>>

(* ------------------------------ package managers ----------------------- *)
PackageManagerEnum == {"uv", "hatch", "poetry", "pdm"}

\* PDM bound to hatchling.
pm_get_build_backend_pdm_hatchling(pm) ==
    CASE pm = "uv" -> HatchlingBackend
      [] pm = "hatch" -> HatchlingBackend
      [] pm = "poetry" -> PoetryCoreBackend
      [] pm = "pdm" -> HatchlingBackend

pm_get_build_backend(pm) ==
    CASE pm = "uv" -> HatchlingBackend
      [] pm = "hatch" -> HatchlingBackend
      [] pm = "poetry" -> PoetryCoreBackend
      [] pm = "pdm" -> PdmBackend

get_display_name(pm) ==
    CASE pm = "uv" -> <<"U","V">>
      [] pm = "hatch" -> <<"H","a","t","c","h">>
      [] pm = "poetry" -> <<"P","o","e","t","r","y">>
      [] pm = "pdm" -> <<"P","D","M">>

\* Variant: every package manager is given the init --name form.
get_init_command_uniform(pm, project_name) ==
    CASE pm = "uv" -> <<"u","v"," ","i","n","i","t"," ","-","-","n","a","m","e"," ">> \o project_name
      [] pm = "hatch" -> <<"h","a","t","c","h"," ","i","n","i","t"," ","-","-","n","a","m","e"," ">> \o project_name
      [] pm = "poetry" -> <<"p","o","e","t","r","y"," ","i","n","i","t"," ","-","-","n","a","m","e"," ">> \o project_name
      [] pm = "pdm" -> <<"p","d","m"," ","i","n","i","t"," ","-","-","n","a","m","e"," ">> \o project_name

get_init_command(pm, project_name) ==
    CASE pm = "uv" -> <<"u","v"," ","i","n","i","t"," ","-","-","n","a","m","e"," ">> \o project_name
      [] pm = "hatch" -> <<"h","a","t","c","h"," ","n","e","w"," ","-","-","c","l","i"," ">> \o project_name
      [] pm = "poetry" -> <<"p","o","e","t","r","y"," ","i","n","i","t"," ","-","-","n","a","m","e"," ">> \o project_name
      [] pm = "pdm" -> <<"p","d","m"," ","i","n","i","t"," ","-","-","n","a","m","e"," ">> \o project_name

generate_missing_pyproject_error(pm, name) ==
    MsgNoPyproject \o PathStr(name) \o PyprojectFileName \o MsgRun
        \o get_init_command(pm, name) \o MsgFirst

generate_conflicting_backend_error(pm, existing, name) ==
    MsgConflicting \o PathStr(name) \o PyprojectFileName \o MsgExisting
        \o get_identifier(existing) \o MsgBut \o get_display_name(pm)
        \o MsgRequires \o get_identifier(pm_get_build_backend(pm)) \o MsgManual

\* Variant: the merged configuration is written before compatibility is
\* looked at.
merge_backend_into_pyproject_write_first(pm, file, name) ==
    LET manager == from_file(file, name) IN
    IF manager.exc # "none"
    THEN [exc |-> manager.exc, msg |-> manager.msg, file |-> file]
    ELSE IF is_empty(manager.content)
    THEN [exc |-> "ValueError",
          msg |-> generate_missing_pyproject_error(pm, name), file |-> file]
    ELSE LET written == write_content(merge_config(manager.content,
                            generate_config(pm_get_build_backend(pm)).config))
             updated == merge_backend_if_compatible(manager.content,
                                                    pm_get_build_backend(pm)) IN
         IF updated.exc = "none"
         THEN [exc |-> "none", msg |-> <<>>, file |-> written]
         ELSE IF updated.exc = "ValueError" /\ Contains(updated.msg, MsgIncompatible)
         THEN [exc |-> "ValueError",
               msg |-> generate_conflicting_backend_error(
                           pm, detect_build_backend(manager.content).backend, name),
               file |-> written]
         ELSE [exc |-> updated.exc, msg |-> updated.msg, file |-> written]

\* merge_backend_into_pyproject: [exc, msg, file], file being pyproject.toml
\* when the call returns or raises.
merge_backend_into_pyproject(pm, file, name) ==
    LET manager == from_file(file, name) IN
    IF manager.exc # "none"
    THEN [exc |-> manager.exc, msg |-> manager.msg, file |-> file]
    ELSE IF is_empty(manager.content)
    THEN [exc |-> "ValueError",
          msg |-> generate_missing_pyproject_error(pm, name), file |-> file]
    ELSE LET updated == merge_backend_if_compatible(manager.content,
                                                    pm_get_build_backend(pm)) IN
         IF updated.exc = "none"
         THEN [exc |-> "none", msg |-> <<>>, file |-> write_content(updated.content)]
         ELSE IF updated.exc = "ValueError" /\ Contains(updated.msg, MsgIncompatible)
         THEN [exc |-> "ValueError",
               msg |-> generate_conflicting_backend_error(
                           pm, detect_build_backend(manager.content).backend, name),
               file |-> file]
         ELSE [exc |-> updated.exc, msg |-> updated.msg, file |-> file]

\* create.detect_existing_build_backend: [exc, msg, backend]
detect_existing_build_backend(file, name) ==
    LET manager == from_file(file, name) IN
    IF manager.exc # "none"
    THEN [exc |-> manager.exc, msg |-> manager.msg, backend |-> NoBuildBackend]
    ELSE LET d == detect_build_backend(manager.content) IN
         [exc |-> d.exc, msg |-> <<>>, backend |-> d.backend]

(* ------------------------- create_pyproject_toml ----------------------- *)
\* get_init_command_args: the words of the native command, <<>> for None.
get_init_command_args(pm, project_name) ==
    CASE pm = "uv" -> <<<<"u", "v">>, <<"i", "n", "i", "t">>, <<"-", "-", "b", "a", "r", "e">>, <<"-", "-", "n", "a", "m", "e">>, project_name>>
      [] pm = "hatch" -> <<>>
      [] pm = "poetry" -> <<<<"p", "o", "e", "t", "r", "y">>, <<"i", "n", "i", "t">>, <<"-", "-", "n", "a", "m", "e">>, project_name, <<"-", "-", "v", "e", "r", "s", "i", "o", "n">>,
                            Version010, <<"-", "-", "n", "o", "-", "i", "n", "t", "e", "r", "a", "c", "t", "i", "o", "n">>>>
      [] pm = "pdm" -> <<<<"p", "d", "m">>, <<"i", "n", "i", "t">>, <<"-", "-", "n", "a", "m", "e">>, project_name, <<"-", "-", "v", "e", "r", "s", "i", "o", "n">>,
                         Version010, <<"-", "-", "n", "o", "-", "i", "n", "t", "e", "r", "a", "c", "t", "i", "o", "n">>>>

\* " ".join(words)
RECURSIVE join(_)
join(words) ==
    IF words = <<>> THEN <<>>
    ELSE IF Len(words) = 1 THEN words[1]
    ELSE words[1] \o <<" ">> \o join(Tail(words))

\* basic_content of _create_pyproject_toml_template
basic_content(project_name) ==
    << Item("project", TableV(<<Item("name", StrV(project_name)),
                                Item("version", StrV(Version010))>>)) >>

\* What the run of a native init command can come to: the command wrote a
\* manifest without build-system, one with the build-system of its own
\* backend, or none, and returned 0; it returned another code; it took more
\* than the timeout; the executable does not exist.
InitOutcomes == {"ok_plain", "ok_backend", "ok_nothing", "nonzero", "timeout", "notfound"}

\* The build-system table a native init command writes for its own backend.
native_build_system(pm) ==
    << Item("build-system", TableV(<<
           Item("requires", ListV(<<get_identifier(pm_get_build_backend(pm))>>)),
           Item("build-backend",
                StrV(CASE pm \in {"uv", "hatch"} -> BeHatchling
                       [] pm = "poetry" -> BePoetryCore
                       [] pm = "pdm" -> BePdm)) >>)) >>

\* _run_native_init_command: [exc, msg, file].  The message of a command
\* that failed goes on with the text of its stderr.

_run_native_init_command(pm, command_args, file, name, outcome) ==
    CASE outcome = "ok_plain" ->
           [exc |-> "none", msg |-> <<>>, file |-> TomlFile(basic_content(name))]
      [] outcome = "ok_backend" ->
           [exc |-> "none", msg |-> <<>>,
            file |-> TomlFile(basic_content(name) \o native_build_system(pm))]
      [] outcome = "ok_nothing" -> [exc |-> "none", msg |-> <<>>, file |-> file]
      [] outcome = "nonzero" ->
           [exc |-> "PyProjectTOMLCreationError",
            msg |-> MsgCommandFailed \o join(command_args), file |-> file]
      [] outcome = "timeout" ->
           [exc |-> "PyProjectTOMLCreationError",
            msg |-> MsgCommandTimedOut \o join(command_args), file |-> file]
      [] outcome = "notfound" ->
           [exc |-> "PyProjectTOMLCreationError",
            msg |-> MsgCommandNotFound \o command_args[1], file |-> file]

\* The template comes with the build-system table of the backend.
create_pyproject_toml_with_backend(pm, file, name, outcome) ==
    LET command_args == get_init_command_args(pm, name) IN
    IF command_args = <<>>
    THEN [exc |-> "none", msg |-> <<>>,
          file |-> TomlFile(basic_content(name) \o native_build_system(pm))]
    ELSE _run_native_init_command(pm, command_args, file, name, outcome)

\* create_pyproject_toml: [exc, msg, file]
create_pyproject_toml(pm, file, name, outcome) ==
    LET command_args == get_init_command_args(pm, name) IN
    IF command_args = <<>>
    THEN [exc |-> "none", msg |-> <<>>, file |-> TomlFile(basic_content(name))]
    ELSE _run_native_init_command(pm, command_args, file, name, outcome)

(* ------------------------------ str ------------------------------------ *)
UpperCase ==
    <<"A","B","C","D","E","F","G","H","I","J","K","L","M",
      "N","O","P","Q","R","S","T","U","V","W","X","Y","Z">>
LowerCase ==
    <<"a","b","c","d","e","f","g","h","i","j","k","l","m",
      "n","o","p","q","r","s","t","u","v","w","x","y","z">>

\* str.lower
lower(s) ==
    [i \in 1..Len(s) |->
        IF \E k \in 1..26 : UpperCase[k] = s[i]
        THEN LowerCase[CHOOSE k \in 1..26 : UpperCase[k] = s[i]]
        ELSE s[i]]

\* str.strip, for blanks
strip(s) ==
    LET idx == {i \in 1..Len(s) : s[i] # " "} IN
    IF idx = {} THEN <<>>
    ELSE SubSeq(s, CHOOSE i \in idx : \A j \in idx : i <= j,
                   CHOOSE i \in idx : \A j \in idx : i >= j)

(* ------------------------------ create.py ------------------------------ *)
\* The manifest looks complete once build-system.build-backend is set,
\* whatever tool.hatch.build holds.
manifest_state_backend_only(file) ==
    IF file.kind = "malformed" THEN "EXISTING_INCOMPLETE"
    ELSE IF /\ HasKey(file.doc, "build-system")
            /\ IsDict(Get(file.doc, "build-system"))
            /\ HasKey(Get(file.doc, "build-system").items, "build-backend")
            /\ Truthy(Get(Get(file.doc, "build-system").items, "build-backend"))
         THEN "EXISTING_COMPLETE"
         ELSE "EXISTING_INCOMPLETE"

\* The try block of detect_workspace_state.  Any exception while looking
\* into the manifest (unparsable text, .get on a value that is no table)
\* gives EXISTING_INCOMPLETE.
manifest_state(file) ==
    IF file.kind = "malformed" THEN "EXISTING_INCOMPLETE"
    ELSE LET content == file.doc
             build_system == IF HasKey(content, "build-system")
                             THEN Get(content, "build-system") ELSE TableV(<<>>)
             tool == IF HasKey(content, "tool")
                     THEN Get(content, "tool") ELSE TableV(<<>>)
         IN IF ~IsDict(tool) THEN "EXISTING_INCOMPLETE"
            ELSE LET hatch == IF HasKey(tool.items, "hatch")
                              THEN Get(tool.items, "hatch") ELSE TableV(<<>>)
            IN IF ~IsDict(hatch) THEN "EXISTING_INCOMPLETE"
            ELSE LET hatch_config == IF HasKey(hatch.items, "build")
                                     THEN Get(hatch.items, "build") ELSE TableV(<<>>)
            IN IF ~IsDict(build_system) THEN "EXISTING_INCOMPLETE"
            ELSE IF ~(HasKey(build_system.items, "build-backend")
                      /\ Truthy(Get(build_system.items, "build-backend")))
                 THEN "EXISTING_INCOMPLETE"
            ELSE IF ~IsDict(hatch_config) THEN "EXISTING_INCOMPLETE"
            ELSE IF HasKey(hatch_config.items, "dev-mode-dirs")
                    /\ Truthy(Get(hatch_config.items, "dev-mode-dirs"))
                 THEN "EXISTING_COMPLETE"
                 ELSE "EXISTING_INCOMPLETE"

\* Variant: an existing manifest is classified whether or not the workspace
\* marker exists.
detect_workspace_state_manifest_first(workspace_exists, file) ==
    LET pyproject_exists == file.kind # "absent" IN
    IF pyproject_exists THEN manifest_state(file)
    ELSE IF workspace_exists THEN "EXISTING_NO_PYPROJECT"
    ELSE "FRESH"

\* The parse error of the manifest leaves detect_workspace_state.
detect_workspace_state_raising(workspace_exists, file) ==
    LET pyproject_exists == file.kind # "absent" IN
    IF ~workspace_exists /\ ~pyproject_exists THEN "FRESH"
    ELSE IF workspace_exists /\ ~pyproject_exists THEN "EXISTING_NO_PYPROJECT"
    ELSE IF workspace_exists /\ pyproject_exists
    THEN IF file.kind = "malformed" THEN "ValueError" ELSE manifest_state(file)
    ELSE "FRESH"

\* detect_workspace_state
detect_workspace_state(workspace_exists, file) ==
    LET pyproject_exists == file.kind # "absent" IN
    IF ~workspace_exists /\ ~pyproject_exists THEN "FRESH"
    ELSE IF workspace_exists /\ ~pyproject_exists THEN "EXISTING_NO_PYPROJECT"
    ELSE IF workspace_exists /\ pyproject_exists THEN manifest_state(file)
    ELSE "FRESH"

(* ------------------------ package_manager_factory.py ------------------- *)
\* The value of a PackageManagerEnum member.
pm_value(pm) ==
    CASE pm = "uv" -> <<"u","v">>
      [] pm = "hatch" -> <<"h","a","t","c","h">>
      [] pm = "poetry" -> <<"p","o","e","t","r","y">>
      [] pm = "pdm" -> <<"p","d","m">>

\* repr of [pm.value for pm in PackageManagerEnum]
valid_options ==
    <<"[", "'", "u", "v", "'", ",", " ", "'", "h", "a", "t", "c", "h", "'", ",", " ", "'", "p", "o", "e", "t", "r", "y", "'", ",", " ", "'", "p", "d", "m", "'", "]">>

\* get_package_manager for a str argument: [exc, msg, pm]
get_package_manager(package_manager) ==
    IF \E pm \in PackageManagerEnum : pm_value(pm) = package_manager
    THEN [exc |-> "none", msg |-> <<>>,
          pm |-> CHOOSE pm \in PackageManagerEnum : pm_value(pm) = package_manager]
    ELSE [exc |-> "ValueError",
          msg |-> MsgUnsupportedPm \o package_manager \o MsgValidOptions \o valid_options,
          pm |-> "none"]

(* ------------------------------ detection ------------------------------ *)
\* lock_files.patterns
patterns ==
    {"pdm.lock", "pixi.lock", "poetry.lock", "uv.lock", "requirements.lock",
     "requirements.txt"}

\* find_lock_files: the pattern names that exist in the directory.
find_lock_files(dir) == {k \in patterns : k \in dir}

\* poetry.lock looked for before uv.lock.
detect_package_manager_poetry_first(dir, file, name) ==
    LET lock_files == find_lock_files(dir) IN
    IF "poetry.lock" \in lock_files THEN "poetry"
    ELSE IF "uv.lock" \in lock_files THEN "uv"
    ELSE IF "pdm.lock" \in lock_files THEN "pdm"
    ELSE IF file.kind # "absent"
    THEN LET manager == from_file(file, name) IN
         IF manager.exc # "none" THEN "none"
         ELSE LET d == detect_build_backend(manager.content) IN
              IF d.exc # "none" THEN "none"
              ELSE IF get_identifier(d.backend) = IdPoetryCore THEN "poetry"
              ELSE IF get_identifier(d.backend) = IdPdmBackend THEN "pdm"
              ELSE "none"
    ELSE "none"

\* A hatchling manifest taken as a sign of uv.
detect_package_manager_hatchling_uv(dir, file, name) ==
    LET lock_files == find_lock_files(dir) IN
    IF "uv.lock" \in lock_files THEN "uv"
    ELSE IF "poetry.lock" \in lock_files THEN "poetry"
    ELSE IF "pdm.lock" \in lock_files THEN "pdm"
    ELSE IF file.kind # "absent"
    THEN LET manager == from_file(file, name) IN
         IF manager.exc # "none" THEN "none"
         ELSE LET d == detect_build_backend(manager.content) IN
              IF d.exc # "none" THEN "none"
              ELSE IF get_identifier(d.backend) = IdPoetryCore THEN "poetry"
              ELSE IF get_identifier(d.backend) = IdPdmBackend THEN "pdm"
              ELSE IF get_identifier(d.backend) = IdHatchling THEN "uv"
              ELSE "none"
    ELSE "none"

\* detect_package_manager: a package manager or "none".
detect_package_manager(dir, file, name) ==
    LET lock_files == find_lock_files(dir) IN
    IF "uv.lock" \in lock_files THEN "uv"
    ELSE IF "poetry.lock" \in lock_files THEN "poetry"
    ELSE IF "pdm.lock" \in lock_files THEN "pdm"
    ELSE IF file.kind # "absent"
    THEN LET manager == from_file(file, name) IN
         IF manager.exc # "none" THEN "none"
         ELSE LET d == detect_build_backend(manager.content) IN
              IF d.exc # "none" THEN "none"
              ELSE IF get_identifier(d.backend) = IdPoetryCore THEN "poetry"
              ELSE IF get_identifier(d.backend) = IdPdmBackend THEN "pdm"
              ELSE "none"
    ELSE "none"

\* detect_command_context: a package manager or "none", from sys.argv.
detect_command_context(sys_argv) ==
    IF Len(sys_argv) >= 2
    THEN IF sys_argv[1] = "uv" /\ sys_argv[2] = "run" THEN "uv"
         ELSE IF sys_argv[1] = "poetry" /\ sys_argv[2] = "run" THEN "poetry"
         ELSE IF sys_argv[1] = "pdm" /\ sys_argv[2] = "run" THEN "pdm"
         ELSE IF sys_argv[1] = "hatch" /\ sys_argv[2] = "run" THEN "hatch"
         ELSE "none"
    ELSE "none"

\* The directory looked at before sys.argv.
detected_for_prompt_directory_first(sys_argv, dir, file, name) ==
    LET detected == detect_package_manager(dir, file, name) IN
    IF detected = "none" THEN detect_command_context(sys_argv)
    ELSE detected

\* The value of detected in
\* prompt_for_package_manager_configuration_with_detection.
detected_for_prompt(sys_argv, dir, file, name) ==
    LET detected == detect_command_context(sys_argv) IN
    IF detected = "none" THEN detect_package_manager(dir, file, name)
    ELSE detected

(* ------------------------------ scaffolding ---------------------------- *)
\* The directories and files of a workspace besides workspace.toml and
\* pyproject.toml, and a file of the user in one of the directories.
ScaffoldPaths ==
    {"bases", "components", "projects", "development", "README.md",
     "bases/custom_file.py"}

\* Every path is "absent", of the "user" or "generated".
EmptyTree == [p \in ScaffoldPaths |-> "absent"]

\* create_dir(path, dir_name, keep=True): the directory is made unless it
\* exists.
create_dir(t, dir_name) ==
    IF t[dir_name] = "absent" THEN [t EXCEPT ![dir_name] = "generated"] ELSE t

\* create_development(path, keep=True)
create_development(t) == create_dir(t, "development")

\* readme.create_workspace_readme: the README is written unless it exists.
create_workspace_readme(t) ==
    IF t["README.md"] = "absent" THEN [t EXCEPT !["README.md"] = "generated"] ELSE t

\* The workspace file is written whether it exists or not.
create_workspace_config_overwriting(workspace_file) == "template"

\* create_workspace_config: the workspace file is written from the template
\* only if it does not exist.
create_workspace_config(workspace_file) ==
    IF workspace_file = "absent" THEN "template" ELSE workspace_file

\* The first six calls of create_workspace, on the directory tree.
scaffold(t) ==
    create_workspace_readme(create_development(
        create_dir(create_dir(create_dir(t, "bases"), "components"), "projects")))

(* --------------------------- create_workspace -------------------------- *)
\* A call create_workspace makes, with the package manager or the prompt it
\* is about.
Event(call, arg) == [call |-> call, arg |-> arg]

\* Where create_workspace stands after a stretch of its code: waiting in
\* one of the three input() loops or done, the calls made on the way, the
\* exception that left create_workspace, pyproject.toml, the text of the
\* Error line printed.
Step(pc, events, exc, msg, file, branch, detected, printed) ==
    [pc |-> pc, events |-> events, exc |-> exc, msg |-> msg, file |-> file,
     branch |-> branch, detected |-> detected, printed |-> printed]

\* PackageManagerEnum(choice): the member or "none" for ValueError.
PackageManagerEnum_of(choice) ==
    IF \E pm \in PackageManagerEnum : pm_value(pm) = choice
    THEN CHOOSE pm \in PackageManagerEnum : pm_value(pm) = choice
    ELSE "none"

\* The explicit branch of create_workspace: get_package_manager and
\* merge_backend_into_pyproject, every exception raised again.
explicit_mode(package_manager, file, name) ==
    LET r == get_package_manager(package_manager) IN
    IF r.exc # "none"
    THEN Step("done", <<>>, r.exc, r.msg, file, "explicit", "none", <<>>)
    ELSE LET m == merge_backend_into_pyproject(r.pm, file, name) IN
         Step("done", <<Event("merge_backend_into_pyproject", r.pm)>>,
              m.exc, m.msg, m.file, "explicit", "none", <<>>)

\* Only the command context is offered; the directory is looked at without
\* effect.
auto_mode_context_only(file, name, isatty, sys_argv, dir) ==
    LET pyproject_exists == file.kind # "absent"
        interactive == <<Event("is_interactive_environment", "none")>>
    IN
    IF ~isatty
    THEN Step("done", interactive \o <<Event("display_setup_completion_message", "none")>>,
              "none", <<>>, file, "non_interactive", "none", <<>>)
    ELSE IF pyproject_exists
    THEN LET detected == detect_command_context(sys_argv)
             calls == interactive \o <<Event("detect_command_context", "none")>>
                      \o (IF detected = "none"
                          THEN <<Event("detect_package_manager", "none")>> ELSE <<>>)
         IN IF detected # "none"
            THEN Step("confirm", calls \o <<Event("input", "confirm")>>, "none", <<>>,
                      file, "existing", detected, <<>>)
            ELSE Step("proceed", calls \o <<Event("input", "proceed")>>, "none", <<>>,
                      file, "existing", "none", <<>>)
    ELSE Step("proceed", interactive \o <<Event("input", "proceed")>>, "none", <<>>,
              file, "missing", "none", <<>>)

\* The branch without explicit package manager, as far as the first input()
\* or the end.
auto_mode(file, name, isatty, sys_argv, dir) ==
    LET pyproject_exists == file.kind # "absent"
        interactive == <<Event("is_interactive_environment", "none")>>
    IN
    IF ~isatty
    THEN Step("done", interactive \o <<Event("display_setup_completion_message", "none")>>,
              "none", <<>>, file, "non_interactive", "none", <<>>)
    ELSE IF pyproject_exists
    THEN LET context == detect_command_context(sys_argv)
             detected == detected_for_prompt(sys_argv, dir, file, name)
             calls == interactive \o <<Event("detect_command_context", "none")>>
                      \o (IF context = "none"
                          THEN <<Event("detect_package_manager", "none")>> ELSE <<>>)
         IN IF detected # "none"
            THEN Step("confirm", calls \o <<Event("input", "confirm")>>, "none", <<>>,
                      file, "existing", detected, <<>>)
            ELSE Step("proceed", calls \o <<Event("input", "proceed")>>, "none", <<>>,
                      file, "existing", "none", <<>>)
    ELSE Step("proceed", interactive \o <<Event("input", "proceed")>>, "none", <<>>,
              file, "missing", "none", <<>>)

\* Without terminal and without explicit package manager uv is configured.
create_workspace_uv_by_default(package_manager, file, name, isatty, sys_argv, dir) ==
    IF package_manager # <<>> THEN explicit_mode(package_manager, file, name)
    ELSE IF ~isatty THEN explicit_mode(<<"u", "v">>, file, name)
    ELSE auto_mode(file, name, isatty, sys_argv, dir)

\* Interactivity is looked at before the explicit package manager.
create_workspace_tty_first(package_manager, file, name, isatty, sys_argv, dir) ==
    IF isatty THEN auto_mode(file, name, isatty, sys_argv, dir)
    ELSE IF package_manager # <<>> THEN explicit_mode(package_manager, file, name)
    ELSE auto_mode(file, name, isatty, sys_argv, dir)

\* create_workspace after the scaffolding, as far as the first input() or
\* the end.  The empty string is no package manager.
create_workspace(package_manager, file, name, isatty, sys_argv, dir) ==
    IF package_manager # <<>> THEN explicit_mode(package_manager, file, name)
    ELSE auto_mode(file, name, isatty, sys_argv, dir)

\* create_workspace from the return of a prompt with a package manager.
\* With a manifest the merge stands outside of any try; without one
\* create_pyproject_toml and the merge stand in a try that catches
\* PyProjectTOMLCreationError and ValueError.
configure(chosen_pm, events, file, name, branch, outcome) ==
    IF branch = "existing"
    THEN LET m == merge_backend_into_pyproject(chosen_pm, file, name) IN
         Step("done", events \o <<Event("merge_backend_into_pyproject", chosen_pm)>>,
              m.exc, m.msg, m.file, branch, "none", <<>>)
    ELSE LET c == create_pyproject_toml(chosen_pm, file, name, outcome)
             created == events \o <<Event("create_pyproject_toml", chosen_pm)>>
             caught == <<Event("print_error", chosen_pm),
                         Event("display_setup_completion_message", "none")>>
         IN IF c.exc # "none"
            THEN Step("done", created \o caught, "none", <<>>, c.file, branch,
                      "none", c.msg)
            ELSE LET m == merge_backend_into_pyproject(chosen_pm, c.file, name)
                     merged == created
                               \o <<Event("merge_backend_into_pyproject", chosen_pm)>>
                 IN IF m.exc = "ValueError"
                    THEN Step("done", merged \o caught, "none", <<>>, m.file, branch,
                              "none", m.msg)
                    ELSE Step("done", merged, m.exc, m.msg, m.file, branch,
                              "none", <<>>)

\* create_workspace from the return of a prompt with None.
declined(events, file, branch) ==
    IF branch = "existing"
    THEN Step("done", events, "none", <<>>, file, branch, "none", <<>>)
    ELSE Step("done", events \o <<Event("display_setup_completion_message", "none")>>,
              "none", <<>>, file, branch, "none", <<>>)

\* The answer is compared as typed, blanks and capitals included.
answer_input_as_typed(pc, answer, events, file, name, branch, detected, outcome) ==
    LET response == answer
        again(at) == Step(at, events \o <<Event("input", at)>>, "none", <<>>, file,
                          branch, detected, <<>>)
    IN
    CASE pc = "confirm" ->
           IF response \in {<<"y">>, <<"y","e","s">>, <<>>}
           THEN configure(detected, events, file, name, branch, outcome)
           ELSE IF response \in {<<"n">>, <<"n","o">>} THEN again("choice")
           ELSE again("confirm")
      [] pc = "proceed" ->
           IF response \in {<<"y">>, <<"y","e","s">>} THEN again("choice")
           ELSE IF response \in {<<"n">>, <<"n","o">>}
           THEN declined(events, file, branch)
           ELSE again("proceed")
      [] pc = "choice" ->
           IF PackageManagerEnum_of(response) # "none"
           THEN configure(PackageManagerEnum_of(response), events, file, name,
                          branch, outcome)
           ELSE again("choice")

\* One answer read by input() in one of the three loops, and the code up to
\* the next input() or the end.
answer_input(pc, answer, events, file, name, branch, detected, outcome) ==
    LET response == lower(strip(answer))
        again(at) == Step(at, events \o <<Event("input", at)>>, "none", <<>>, file,
                          branch, detected, <<>>)
    IN
    CASE pc = "confirm" ->
           IF response \in {<<"y">>, <<"y","e","s">>, <<>>}
           THEN configure(detected, events, file, name, branch, outcome)
           ELSE IF response \in {<<"n">>, <<"n","o">>} THEN again("choice")
           ELSE again("confirm")
      [] pc = "proceed" ->
           IF response \in {<<"y">>, <<"y","e","s">>} THEN again("choice")
           ELSE IF response \in {<<"n">>, <<"n","o">>}
           THEN declined(events, file, branch)
           ELSE again("proceed")
      [] pc = "choice" ->
           IF PackageManagerEnum_of(response) # "none"
           THEN configure(PackageManagerEnum_of(response), events, file, name,
                          branch, outcome)
           ELSE again("choice")

(* ------------------------------ inputs --------------------------------- *)
ProjectNames == {NameDemo, NameWs}

\* build-backend strings found in manifests: the three generated ones, an
\* unknown one, the literal "none", a differently cased token and two
\* strings holding two tokens.
BackendStrings ==
    {BeHatchling, BePoetryCore, BePdm, BeUnknown, BeLiteralNone,
     BeUpperHatchling, BePdmPoetry, BeHatchlingPdm}

\* A token with up to MaxPad other characters before and after it.
PaddedStrings ==
    {Repeat("x", i) \o tok \o Repeat("x", j) :
        i \in 0..MaxPad, j \in 0..MaxPad, tok \in {TokPoetry, TokHatchling, TokPdm}}
    \cup {Repeat("x", i) : i \in 0..MaxPad}

ProbeStrings == BackendStrings \cup PaddedStrings

ProjectSections ==
    { <<>>,
      << Item("project", TableV(<<
             Item("name", StrV(NameDemo)),
             Item("version", StrV(Version010)),
             Item("dependencies", TableV(<<Item("requests", StrV(<<"*">>))>>)) >>)) >> }

BuildSystemSections ==
    { <<>>,
      << Item("build-system", TableV(<<>>)) >>,
      << Item("build-system", TableV(<<Item("requires", ListV(<<ReqStale>>))>>)) >>,
      << Item("build-system", TableV(<<
             Item("requires", TableV(<<Item("extra", StrV(ReqStale))>>)) >>)) >>,
      << Item("build-system", StrV(ReqStale)) >>,
      << Item("build-system", TableV(<<
             Item("build-backend", ListV(<<BeHatchling>>)) >>)) >> }
    \cup { << Item("build-system", TableV(<<
                  Item("requires", ListV(<<ReqStale>>)),
                  Item("build-backend", StrV(s)) >>)) >> : s \in BackendStrings }

ToolSections ==
    { <<>>,
      << Item("tool", TableV(<<
             Item("polylith", TableV(<<Item("namespace", StrV(NameDemo))>>)) >>)) >>,
      << Item("tool", TableV(<<
             Item("hatch", TableV(<<
                 Item("build", TableV(<<
                     Item("dev-mode-dirs", ListV(<<DirSrc>>)),
                     Item("packages", ListV(<<DirSrc>>)) >>)),
                 Item("version", TableV(<<Item("path", StrV(DirSrc))>>)) >>)),
             Item("polylith", TableV(<<Item("namespace", StrV(NameDemo))>>)) >>)) >>,
      << Item("tool", StrV(DirSrc)) >>,
      << Item("tool", TableV(<<
             Item("hatch", TableV(<<
                 Item("build", TableV(<<
                     Item("dev-mode-dirs",
                          TableV(<<Item("extra", StrV(DirSrc))>>)) >>)) >>)) >>)) >> }

Documents ==
    {p \o b \o t : p \in ProjectSections, b \in BuildSystemSections, t \in ToolSections}

\* Manifests that hold nothing but a build-backend entry.
BackendOnlyDocuments ==
    { << Item("build-system", TableV(<<Item("build-backend", StrV(s))>>)) >> :
        s \in PaddedStrings }

\* A manifest that holds nothing but the project name.
DemoDocument ==
    << Item("project", TableV(<<Item("name", StrV(NameDemo))>>)) >>

Files ==
    {AbsentFile, MalformedFile}
    \cup {TomlFile(d) : d \in Documents \cup BackendOnlyDocuments \cup {DemoDocument}}

\* Manifests at the edge of completeness: an empty dev-mode-dirs list, an
\* empty build-backend string.
StateDocuments ==
    { << Item("build-system", TableV(<<Item("build-backend", StrV(BeHatchling))>>)),
         Item("tool", TableV(<<Item("hatch", TableV(<<Item("build", TableV(<<
             Item("dev-mode-dirs", ListV(<<>>)) >>)) >>)) >>)) >>,
      << Item("build-system", TableV(<<Item("build-backend", StrV(<<>>))>>)),
         Item("tool", TableV(<<Item("hatch", TableV(<<Item("build", TableV(<<
             Item("dev-mode-dirs", ListV(<<DirSrc>>)) >>)) >>)) >>)) >> }

DetectFiles == Files \cup {TomlFile(d) : d \in StateDocuments}

\* Arguments for get_package_manager: the four values, other casings, other
\* strings.
PmStrings ==
    {pm_value(pm) : pm \in PackageManagerEnum}
    \cup {<<"U", "V">>, <<"P", "o", "e", "t", "r", "y">>, <<"i", "n", "v", "a", "l", "i", "d">>, <<"u", "v", "x">>, <<>>}

\* Directories: the lock files present.
LockDirs == SUBSET {"uv.lock", "poetry.lock", "pdm.lock", "pixi.lock"}

\* Values of sys.argv.
ArgvOptions ==
    { <<"uv", "run", "poly">>, <<"poetry", "run", "poly">>, <<"pdm", "run", "poly">>,
      <<"hatch", "run", "poly">>, <<"poly", "create", "workspace">>, <<"uv">>,
      <<"uv", "sync">>, <<"run", "uv">>, <<"pip", "run">> }

\* Manifests found in the directory when create_workspace is called.
WorkspaceDocuments ==
    { <<>>, DemoDocument,
      << Item("build-system", StrV(ReqStale)) >> }
    \cup { DemoDocument \o << Item("build-system", TableV(<<
                                   Item("build-backend", StrV(s)) >>)) >> :
             s \in {BeHatchling, BePoetryCore, BePdm, BeUnknown, BeLiteralNone} }

WorkspaceFiles == {AbsentFile, MalformedFile} \cup {TomlFile(d) : d \in WorkspaceDocuments}

\* What the user types at a prompt.
Answers ==
    {<<"y">>, <<"n">>, <<>>, <<" ","Y","e","s"," ">>, <<"N","O">>, <<"u","v">>,
     <<" ","P","D","M">>, <<"h","a","t","c","h">>, <<"p","o","e","t","r","y">>,
     <<"x">>}

\* Dicts for _deep_merge_dict: two keys, under each a str, a list or a
\* table of two keys holding strs.
MergeLeaves == {StrV(<<"x">>), StrV(<<"y">>), ListV(<<<<"x">>>>), ListV(<<<<"y">>>>)}
InnerDicts ==
    {c \o d : c \in {<<>>} \cup {<<Item("c", v)>> : v \in {StrV(<<"x">>), StrV(<<"y">>)}},
              d \in {<<>>} \cup {<<Item("d", v)>> : v \in {StrV(<<"x">>), StrV(<<"y">>)}}}
MergeValues == MergeLeaves \cup {TableV(d) : d \in InnerDicts}
MergeDicts ==
    {a \o b : a \in {<<>>} \cup {<<Item("a", v)>> : v \in MergeValues},
              b \in {<<>>} \cup {<<Item("b", v)>> : v \in MergeLeaves}}

\* The backends the factory can return.
BuildBackendEnum == {"HATCHLING", "POETRY_CORE", "PDM_BACKEND", "NONE", "UNSUPPORTED"}

Backends ==
    {get_build_backend_enum(e) : e \in BuildBackendEnum}
    \cup {get_build_backend(s) : s \in ProbeStrings}

(* ------------------------------ state machine -------------------------- *)
NoProbe ==
    [fn |-> "none", self |-> NoBuildBackend, other |-> NoBuildBackend,
     arg |-> <<>>, content |-> <<>>, exc |-> "none", msg |-> <<>>,
     bool |-> FALSE, backend |-> NoBuildBackend, result |-> <<>>,
     file |-> AbsentFile, dir |-> {}, argv |-> <<>>, out |-> "none",
          after |-> AbsentFile, outcome |-> "none", events |-> <<>>, printed |-> <<>>,
          source |-> <<>>]

\* create_workspace has not been called.
IdleCw ==
    [pc |-> "idle", arg |-> <<>>, events |-> <<>>, exc |-> "none", msg |-> <<>>,
     branch |-> "none", detected |-> "none", before |-> AbsentFile,
     printed |-> <<>>, inputs |-> 0, answer |-> <<>>, marker_before |-> "absent"]

\* A directory without workspace file and lock files, a plain poly command
\* line without terminal.
NoWorkspace ==
    /\ marker = "absent"
    /\ lock_dir = {}
    /\ argv = <<"poly", "create", "workspace">>
    /\ tty = FALSE
    /\ cw = IdleCw
    /\ tree = EmptyTree

Init ==
    /\ pyproject \in Files
    /\ path \in ProjectNames
    /\ log = <<>>
    /\ probe = NoProbe
    /\ NoWorkspace

\* pm.merge_backend_into_pyproject(path)
MergeBackendIntoPyproject(pm) ==
    /\ Len(log) < MaxCalls
    /\ LET r == merge_backend_into_pyproject(pm, pyproject, path) IN
       /\ pyproject' = r.file
       /\ log' = Append(log, [op |-> "merge", pm |-> pm, before |-> pyproject,
                              after |-> r.file, exc |-> r.exc, msg |-> r.msg,
                              backend |-> NoBuildBackend])
    /\ UNCHANGED <<path, probe, wsvars>>

\* detect_existing_build_backend(path)
DetectExistingBuildBackend ==
    /\ Len(log) < MaxCalls
    /\ LET r == detect_existing_build_backend(pyproject, path) IN
       log' = Append(log, [op |-> "detect", pm |-> "none", before |-> pyproject,
                           after |-> pyproject, exc |-> r.exc, msg |-> r.msg,
                           backend |-> r.backend])
    /\ UNCHANGED <<pyproject, path, probe, wsvars>>

Next ==
    \/ \E pm \in PackageManagerEnum : MergeBackendIntoPyproject(pm)
    \/ DetectExistingBuildBackend

Spec == Init /\ [][Next]_vars

(* ------------- the pure functions of the backend registry -------------- *)
InitBackend ==
    /\ pyproject = AbsentFile
    /\ path = NameDemo
    /\ log = <<>>
    /\ probe = NoProbe
    /\ NoWorkspace

ProbeIsCompatibleWith(a, b) ==
    /\ probe.fn = "none"
    /\ probe' = [NoProbe EXCEPT !.fn = "is_compatible_with", !.self = a,
                                !.other = b, !.bool = is_compatible_with(a, b)]
    /\ UNCHANGED <<pyproject, path, log, wsvars>>

ProbeGetBuildBackend(s) ==
    /\ probe.fn = "none"
    /\ probe' = [NoProbe EXCEPT !.fn = "get_build_backend", !.arg = s,
                                !.backend = get_build_backend(s)]
    /\ UNCHANGED <<pyproject, path, log, wsvars>>

ProbeMergeBackendIfCompatible(content, new_backend) ==
    /\ probe.fn = "none"
    /\ LET r == merge_backend_if_compatible(content, new_backend) IN
       probe' = [NoProbe EXCEPT !.fn = "merge_backend_if_compatible",
                                !.content = content, !.other = new_backend,
                                !.exc = r.exc, !.msg = r.msg, !.result = r.content]
    /\ UNCHANGED <<pyproject, path, log, wsvars>>

ProbeDeepMergeDict(target, source) ==
    /\ probe.fn = "none"
    /\ probe' = [NoProbe EXCEPT !.fn = "_deep_merge_dict", !.content = target,
                                !.source = source,
                                !.result = _deep_merge_dict(target, source)]
    /\ UNCHANGED <<pyproject, path, log, wsvars>>

NextBackend ==
    \/ \E a \in Backends, b \in Backends : ProbeIsCompatibleWith(a, b)
    \/ \E s \in ProbeStrings : ProbeGetBuildBackend(s)
    \/ \E d \in Documents, b \in ConcreteBackends : ProbeMergeBackendIfCompatible(d, b)
    \/ probe.fn = "none" /\ \E t \in MergeDicts, s \in MergeDicts :
           ProbeDeepMergeDict(t, s)

SpecBackend == InitBackend /\ [][NextBackend]_vars

(* ------- the pure functions of workspace creation and detection -------- *)
InitDetect ==
    /\ pyproject = AbsentFile
    /\ path = NameDemo
    /\ log = <<>>
    /\ probe = NoProbe
    /\ NoWorkspace

ProbeDetectWorkspaceState(workspace_exists, file) ==
    /\ probe.fn = "none"
    /\ probe' = [NoProbe EXCEPT !.fn = "detect_workspace_state",
                                !.bool = workspace_exists, !.file = file,
                                !.out = detect_workspace_state(workspace_exists, file)]
    /\ UNCHANGED <<pyproject, path, log, wsvars>>

ProbeGetPackageManager(s) ==
    /\ probe.fn = "none"
    /\ LET r == get_package_manager(s) IN
       probe' = [NoProbe EXCEPT !.fn = "get_package_manager", !.arg = s,
                                !.exc = r.exc, !.msg = r.msg, !.out = r.pm]
    /\ UNCHANGED <<pyproject, path, log, wsvars>>

\* get_package_manager(s).get_build_backend()
ProbePmGetBuildBackend(s) ==
    /\ probe.fn = "none"
    /\ LET r == get_package_manager(s) IN
       /\ r.exc = "none"
       /\ probe' = [NoProbe EXCEPT !.fn = "pm.get_build_backend", !.arg = s,
                                   !.out = r.pm,
                                   !.backend = pm_get_build_backend(r.pm)]
    /\ UNCHANGED <<pyproject, path, log, wsvars>>

ProbeDetectCommandContext(sys_argv) ==
    /\ probe.fn = "none"
    /\ probe' = [NoProbe EXCEPT !.fn = "detect_command_context", !.argv = sys_argv,
                                !.out = detect_command_context(sys_argv)]
    /\ UNCHANGED <<pyproject, path, log, wsvars>>

ProbeDetectPackageManager(dir, file) ==
    /\ probe.fn = "none"
    /\ probe' = [NoProbe EXCEPT !.fn = "detect_package_manager", !.dir = dir,
                                !.file = file,
                                !.out = detect_package_manager(dir, file, path)]
    /\ UNCHANGED <<pyproject, path, log, wsvars>>

ProbeDetectedForPrompt(sys_argv, dir, file) ==
    /\ probe.fn = "none"
    /\ probe' = [NoProbe EXCEPT !.fn = "detected_for_prompt", !.argv = sys_argv,
                                !.dir = dir, !.file = file,
                                !.out = detected_for_prompt(sys_argv, dir, file, path)]
    /\ UNCHANGED <<pyproject, path, log, wsvars>>

ProbeCreatePyprojectToml(pm, file, outcome) ==
    /\ probe.fn = "none"
    /\ \E r \in {create_pyproject_toml(pm, file, path, outcome)} :
       probe' = [NoProbe EXCEPT !.fn = "create_pyproject_toml", !.out = pm,
                                !.file = file, !.outcome = outcome, !.exc = r.exc,
                                !.msg = r.msg, !.after = r.file]
    /\ UNCHANGED <<pyproject, path, log, wsvars>>

\* The try block of create_workspace for a directory without manifest:
\* create_pyproject_toml, then merge_backend_into_pyproject.
ProbeCreateThenConfigure(pm, outcome) ==
    /\ probe.fn = "none"
    /\ \E s \in {configure(pm, <<>>, AbsentFile, path, "missing", outcome)} :
       probe' = [NoProbe EXCEPT !.fn = "configure", !.out = pm,
                                !.file = AbsentFile, !.outcome = outcome,
                                !.exc = s.exc, !.msg = s.msg, !.after = s.file,
                                !.events = s.events, !.printed = s.printed]
    /\ UNCHANGED <<pyproject, path, log, wsvars>>

NextDetect ==
    \/ probe.fn = "none" /\ \E w \in BOOLEAN, f \in DetectFiles :
           ProbeDetectWorkspaceState(w, f)
    \/ probe.fn = "none" /\ \E s \in PmStrings : ProbeGetPackageManager(s)
    \/ probe.fn = "none" /\ \E s \in PmStrings : ProbePmGetBuildBackend(s)
    \/ probe.fn = "none" /\ \E a \in ArgvOptions : ProbeDetectCommandContext(a)
    \/ probe.fn = "none" /\ \E d \in LockDirs, f \in Files :
           ProbeDetectPackageManager(d, f)
    \/ probe.fn = "none" /\ \E a \in ArgvOptions, d \in LockDirs, f \in Files :
           ProbeDetectedForPrompt(a, d, f)
    \/ probe.fn = "none" /\ \E pm \in PackageManagerEnum, f \in WorkspaceFiles,
                                 o \in InitOutcomes : ProbeCreatePyprojectToml(pm, f, o)
    \/ probe.fn = "none" /\ \E pm \in PackageManagerEnum, o \in InitOutcomes :
           ProbeCreateThenConfigure(pm, o)

SpecDetect == InitDetect /\ [][NextDetect]_vars

(* --------------------------- workspace creation ------------------------ *)
InitWorkspace ==
    /\ pyproject \in WorkspaceFiles
    /\ path = NameDemo
    /\ log = <<>>
    /\ probe = NoProbe
    /\ marker \in {"absent", "user"}
    /\ lock_dir \in {{}, {"poetry.lock"}, {"uv.lock", "poetry.lock"}}
    /\ argv \in {<<"poly", "create", "workspace">>, <<"uv", "run", "poly">>,
                 <<"hatch", "run", "poly">>}
    /\ tty \in BOOLEAN
    /\ cw = IdleCw
    /\ tree = EmptyTree

\* create_workspace(path, namespace, theme, package_manager) up to its
\* first input() or its end.  create_workspace_config writes the workspace
\* file unless it exists.
CreateWorkspace(package_manager) ==
    /\ cw.pc = "idle"
    /\ tree' = scaffold(tree)
    /\ marker' = create_workspace_config(marker)
    /\ \E s \in {create_workspace(package_manager, pyproject, path, tty, argv, lock_dir)} :
       /\ pyproject' = s.file
       /\ cw' = [IdleCw EXCEPT !.pc = s.pc, !.arg = package_manager,
                               !.events = s.events, !.exc = s.exc, !.msg = s.msg,
                               !.branch = s.branch, !.detected = s.detected,
                               !.before = pyproject, !.printed = s.printed,
                               !.marker_before = marker]
    /\ UNCHANGED <<path, log, probe, lock_dir, argv, tty>>

\* input() returns the answer the user typed; create_workspace goes on to
\* the next input() or to its end.  The outcome of the native init command
\* is open only where create_pyproject_toml can run.
Input(answer, outcome) ==
    /\ cw.pc \in {"confirm", "proceed", "choice"}
    /\ cw.inputs < MaxInputs
    /\ (cw.branch # "missing" \/ cw.pc # "choice") => outcome = "ok_plain"
    /\ \E s \in {answer_input(cw.pc, answer, cw.events, pyproject, path, cw.branch,
                                cw.detected, outcome)} :
       /\ pyproject' = s.file
       /\ cw' = [cw EXCEPT !.pc = s.pc, !.events = s.events, !.exc = s.exc,
                           !.msg = s.msg, !.printed = s.printed,
                           !.inputs = cw.inputs + 1, !.answer = answer]
    /\ UNCHANGED <<path, log, probe, marker, lock_dir, argv, tty, tree>>

NextWorkspace ==
    \/ \E s \in PmStrings : CreateWorkspace(s)
    \/ \E a \in Answers, o \in InitOutcomes : Input(a, o)

SpecWorkspace == InitWorkspace /\ [][NextWorkspace]_vars

(* ------------------------ repeated scaffolding ------------------------- *)
\* Directory trees the user made before the first run: a file lies in a
\* directory that exists.
UserTrees ==
    {t \in [ScaffoldPaths -> {"absent", "user"}] :
        t["bases/custom_file.py"] = "user" => t["bases"] = "user"}

\* No terminal, as in the tests of repeated runs.
InitScaffold ==
    /\ pyproject \in {AbsentFile, TomlFile(DemoDocument)}
    /\ path = NameDemo
    /\ log = <<>>
    /\ probe = NoProbe
    /\ marker \in {"absent", "user"}
    /\ lock_dir = {}
    /\ argv = <<"poly", "create", "workspace">>
    /\ tty = FALSE
    /\ cw = IdleCw
    /\ tree \in UserTrees

\* One more run of create_workspace(path, namespace, theme).
CreateWorkspaceAgain ==
    /\ Len(log) < MaxCalls
    /\ tree' = scaffold(tree)
    /\ marker' = create_workspace_config(marker)
    /\ \E s \in {create_workspace(<<>>, pyproject, path, tty, argv, lock_dir)} :
       /\ pyproject' = s.file
       /\ cw' = [IdleCw EXCEPT !.pc = s.pc, !.events = s.events, !.exc = s.exc,
                               !.msg = s.msg, !.branch = s.branch,
                               !.before = pyproject, !.marker_before = marker]
       /\ log' = Append(log, [op |-> "create_workspace",
                              tree_before |-> tree, tree_after |-> scaffold(tree),
                              marker_before |-> marker,
                              marker_after |-> create_workspace_config(marker),
                              before |-> pyproject, after |-> s.file])
    /\ UNCHANGED <<path, probe, lock_dir, argv, tty>>

NextScaffold == CreateWorkspaceAgain

SpecScaffold == InitScaffold /\ [][NextScaffold]_vars


(* ======================= reconciliation properties ===================== *)
MergeCalls == {i \in 1..Len(log) : log[i].op = "merge"}
DetectCalls == {i \in 1..Len(log) : log[i].op = "detect"}

\* C1 -- Idempotence of reconciliation: when merge_backend_into_pyproject is
\* run a second time with the same package manager, pyproject.toml after
\* the second run is what it was after the first run, whether the runs
\* succeeded or failed and whatever the initial manifest was.
C1_Idempotent ==
    \A i \in MergeCalls :
        (i > 1 /\ log[i - 1].op = "merge" /\ log[i - 1].pm = log[i].pm)
            => log[i].after = log[i - 1].after

\* The first run rewrote the manifest, and a second run with the same
\* package manager followed.
C1_Witness ==
    /\ Len(log) >= 2
    /\ log[1].op = "merge" /\ log[2].op = "merge"
    /\ log[1].pm = log[2].pm
    /\ log[1].exc = "none" /\ log[2].exc = "none"
    /\ log[1].after # log[1].before

\* All (key path, value) pairs of a dict, tables included.
RECURSIVE PathEntries(_, _)
PathEntries(d, prefix) ==
    UNION { {<<Append(prefix, d[i].key), d[i].val>>}
            \cup (IF IsDict(d[i].val)
                  THEN PathEntries(d[i].val.items, Append(prefix, d[i].key))
                  ELSE {}) : i \in 1..Len(d) }

KeyPaths(d) == {e[1] : e \in PathEntries(d, <<>>)}
\* Key paths at which the dict holds a str or a list.
ScalarPaths(d) == {e[1] : e \in {x \in PathEntries(d, <<>>) : ~IsDict(x[2])}}
IsProperPrefix(p, q) == Len(p) < Len(q) /\ SubSeq(q, 1, Len(p)) = p

Fragment(pm) == generate_config(pm_get_build_backend(pm)).config

\* C2 as claimed -- Non-destructiveness: after a successful merge every key
\* path of the original manifest that does not occur in the backend's
\* configuration fragment is still present with the value it had.
C2_Original ==
    \A i \in MergeCalls :
        log[i].exc = "none" =>
            \A e \in PathEntries(log[i].before.doc, <<>>) :
                e[1] \notin KeyPaths(Fragment(log[i].pm))
                    => e \in PathEntries(log[i].after.doc, <<>>)

\* C2 as amended -- after a successful merge every key path of the original
\* manifest that neither occurs in the fragment nor lies beneath a key path
\* at which the fragment holds a str or a list is still present with the
\* value it had.
C2_NonDestructive ==
    \A i \in MergeCalls :
        log[i].exc = "none" =>
            \A e \in PathEntries(log[i].before.doc, <<>>) :
                ( /\ e[1] \notin KeyPaths(Fragment(log[i].pm))
                  /\ \A p \in ScalarPaths(Fragment(log[i].pm)) : ~IsProperPrefix(p, e[1]) )
                    => e \in PathEntries(log[i].after.doc, <<>>)

\* A successful merge into a manifest that had project.dependencies, other
\* tool tables and stale keys of the fragment's own tables.
C2_Witness ==
    \E i \in MergeCalls :
        /\ log[i].exc = "none"
        /\ log[i].after # log[i].before
        /\ <<"project", "dependencies", "requests">> \in KeyPaths(log[i].before.doc)
        /\ <<"tool", "hatch", "build", "packages">> \in KeyPaths(log[i].before.doc)
        /\ <<"tool", "polylith", "namespace">> \in KeyPaths(log[i].after.doc)

\* The backend the manifest of a file declares, when detection returns one.
Detected(file) == detect_build_backend(file.doc)
HasDetected(file) == file.kind = "toml" /\ file.doc # <<>> /\ Detected(file).exc = "none"
IsKnown(b) == b \in ConcreteBackends
IsUnsupported(b) == b.cls = "UnsupportedBuildBackend"

\* The identifiers and display names as the documentation spells them.
DisplayNameOf(pm) ==
    CASE pm = "uv" -> <<"U","V">>
      [] pm = "hatch" -> <<"H","a","t","c","h">>
      [] pm = "poetry" -> <<"P","o","e","t","r","y">>
      [] pm = "pdm" -> <<"P","D","M">>
RequiredIdOf(pm) ==
    CASE pm \in {"uv", "hatch"} -> <<"h","a","t","c","h","l","i","n","g">>
      [] pm = "poetry" -> <<"p","o","e","t","r","y","-","c","o","r","e">>
      [] pm = "pdm" -> <<"p","d","m","-","b","a","c","k","e","n","d">>
BoundBackendOf(pm) ==
    CASE pm \in {"uv", "hatch"} -> HatchlingBackend
      [] pm = "poetry" -> PoetryCoreBackend
      [] pm = "pdm" -> PdmBackend
IdOfKnown(b) ==
    CASE b = HatchlingBackend -> <<"h","a","t","c","h","l","i","n","g">>
      [] b = PoetryCoreBackend -> <<"p","o","e","t","r","y","-","c","o","r","e">>
      [] b = PdmBackend -> <<"p","d","m","-","b","a","c","k","e","n","d">>
ExistingIdOf(b) == IF IsUnsupported(b) THEN b.identifier ELSE IdOfKnown(b)
NativeInitOf(pm, name) ==
    CASE pm = "uv" -> <<"u","v"," ","i","n","i","t"," ","-","-","n","a","m","e"," ">> \o name
      [] pm = "hatch" -> <<"h","a","t","c","h"," ","n","e","w"," ","-","-","c","l","i"," ">> \o name
      [] pm = "poetry" -> <<"p","o","e","t","r","y"," ","i","n","i","t"," ","-","-","n","a","m","e"," ">> \o name
      [] pm = "pdm" -> <<"p","d","m"," ","i","n","i","t"," ","-","-","n","a","m","e"," ">> \o name

IsConflictError(e) ==
    /\ e.exc = "ValueError"
    /\ Contains(e.msg, MsgConflicting)
    /\ Contains(e.msg, <<"M","a","n","u","a","l"," ","c","o","n","f","i","g","u","r","a","t","i","o","n"," ","r","e","q","u","i","r","e","d",".">>)

\* A manifest whose backend blocks the package manager: a known backend
\* other than the bound one, or an unsupported one.
Blocks(file, pm) ==
    /\ HasDetected(file)
    /\ \/ IsKnown(Detected(file).backend) /\ Detected(file).backend # BoundBackendOf(pm)
       \/ IsUnsupported(Detected(file).backend)

\* C3 -- Conflict detection: when the manifest's detected backend is a known
\* backend different from the package manager's bound backend, or is an
\* unsupported backend, merge_backend_into_pyproject fails with the
\* conflicting-backend error, whose message names the existing identifier,
\* the package manager's display name and the required identifier and says
\* that manual configuration is required.
C3_ConflictDetected ==
    \A i \in MergeCalls :
        Blocks(log[i].before, log[i].pm) =>
            /\ IsConflictError(log[i])
            /\ Contains(log[i].msg, ExistingIdOf(Detected(log[i].before).backend))
            /\ Contains(log[i].msg, DisplayNameOf(log[i].pm))
            /\ Contains(log[i].msg, RequiredIdOf(log[i].pm))

\* C4 -- A failed merge_backend_into_pyproject leaves pyproject.toml as it
\* was: an existing file is not rewritten, an absent file is not created.
C4_FailureLeavesManifest ==
    \A i \in MergeCalls : log[i].exc # "none" => log[i].after = log[i].before

\* Failed merges on a conflicting manifest and on an absent one.
C4_Witness ==
    /\ Len(log) >= 2
    /\ log[1].op = "merge" /\ log[1].exc = "ValueError"
    /\ Blocks(log[1].before, log[1].pm)
    /\ log[2].op = "merge" /\ log[2].exc = "ValueError"
    /\ log[2].pm # log[1].pm

IsFresh(file) == file.kind = "absent" \/ (file.kind = "toml" /\ file.doc = <<>>)

\* C5 -- Fresh-manifest rejection: on an absent manifest or one without
\* top-level keys, merge_backend_into_pyproject fails with the error
\* "No pyproject.toml found", whose message holds the package manager's
\* native init command for the directory name.
C5_FreshManifestRejected ==
    \A i \in MergeCalls :
        IsFresh(log[i].before) =>
            /\ log[i].exc = "ValueError"
            /\ Contains(log[i].msg, <<"N","o"," ","p","y","p","r","o","j","e","c","t",".","t","o","m","l"," ","f","o","u","n","d">>)
            /\ Contains(log[i].msg, NativeInitOf(log[i].pm, path))

\* pdm was asked to configure a directory demo that has no manifest.
C5_Witness ==
    /\ \E i \in MergeCalls : log[i].before.kind = "absent" /\ log[i].pm = "pdm"
                             /\ log[i].exc = "ValueError"
    /\ path = NameDemo

\* C10 -- A manifest that exists but cannot be parsed makes
\* detect_existing_build_backend and merge_backend_into_pyproject fail with
\* "Invalid TOML syntax"; it is never taken for an empty or absent manifest
\* and never repaired.
C10_MalformedSurfaced ==
    \A i \in 1..Len(log) :
        log[i].before.kind = "malformed" =>
            /\ log[i].exc = "ValueError"
            /\ Contains(log[i].msg, <<"I","n","v","a","l","i","d"," ","T","O","M","L"," ","s","y","n","t","a","x">>)
            /\ log[i].after = log[i].before

\* Both operations met an unparsable manifest.
C10_Witness ==
    /\ Len(log) >= 2
    /\ log[1].before.kind = "malformed"
    /\ log[1].op = "detect" /\ log[2].op = "merge"
    /\ log[2].exc = "ValueError"

\* The string at build-system.build-backend, a missing section or key and
\* an absent manifest counting as the empty string.
BackendString(file) ==
    IF file.kind = "absent" \/ ~HasKey(file.doc, "build-system") THEN <<>>
    ELSE LET bs == Get(file.doc, "build-system").items IN
         IF ~HasKey(bs, "build-backend") THEN <<>> ELSE Get(bs, "build-backend").str

\* Files for which build-system, when present, is a table and build-backend,
\* when present, is a string.
HasBackendString(file) ==
    /\ file.kind # "malformed"
    /\ HasKey(file.doc, "build-system") =>
         /\ IsDict(Get(file.doc, "build-system"))
         /\ HasKey(Get(file.doc, "build-system").items, "build-backend") =>
              Get(Get(file.doc, "build-system").items, "build-backend").kind = "str"

Classified(s) ==
    IF s = <<>> THEN NoBuildBackend
    ELSE IF Contains(s, <<"p","o","e","t","r","y">>) THEN PoetryCoreBackend
    ELSE IF Contains(s, <<"h","a","t","c","h","l","i","n","g">>) THEN HatchlingBackend
    ELSE IF Contains(s, <<"p","d","m">>) THEN PdmBackend
    ELSE [cls |-> "UnsupportedBuildBackend", identifier |-> s]

\* C9 -- Backend classification: detection takes the string at
\* build-system.build-backend (empty when the section, the key or the
\* manifest is missing); the empty string gives the None backend, otherwise
\* the first of the tokens poetry, hatchling, pdm the string contains
\* decides, and any other string s gives Unsupported carrying s.  The
\* strings built from a token and padding are classified by their token.
C9_Classification ==
    \A i \in DetectCalls :
        HasBackendString(log[i].before) =>
            /\ log[i].exc = "none"
            /\ log[i].backend = Classified(BackendString(log[i].before))
            /\ IsUnsupported(log[i].backend)
                  => get_identifier(log[i].backend) = BackendString(log[i].before)
            /\ \A m \in 0..MaxPad, n \in 0..MaxPad :
                  /\ BackendString(log[i].before) = Repeat("x", m) \o TokPoetry \o Repeat("x", n)
                        => log[i].backend.cls = "PoetryCoreBackend"
                  /\ BackendString(log[i].before) = Repeat("x", m) \o TokHatchling \o Repeat("x", n)
                        => log[i].backend.cls = "HatchlingBackend"
                  /\ BackendString(log[i].before) = Repeat("x", m) \o TokPdm \o Repeat("x", n)
                        => log[i].backend.cls = "PdmBackend"

\* Detection met a string holding two tokens, and the earlier token won.
C9_Witness ==
    \E i \in DetectCalls :
        /\ BackendString(log[i].before) = BePdmPoetry
        /\ log[i].backend = PoetryCoreBackend

(* ======================= backend registry properties =================== *)
IsNoneVariant(b) == b.cls = "NoBuildBackend"

\* C6 -- merge_backend_if_compatible(doc, new_backend), with existing the
\* detected backend of doc: it fails with "Incompatible backends: existing
\* <existing identifier>, new <new identifier>" exactly when existing is not
\* the None variant and is not compatible with new_backend; in every other
\* case it returns the deep merge of doc and new_backend's configuration.
C6_MergeIfCompatible ==
    (probe.fn = "merge_backend_if_compatible"
        /\ detect_build_backend(probe.content).exc = "none") =>
        LET existing == detect_build_backend(probe.content).backend
            fails == ~IsNoneVariant(existing)
                     /\ ~is_compatible_with(existing, probe.other)
        IN IF fails
           THEN /\ probe.exc = "ValueError"
                /\ probe.msg = MsgIncompatible \o MsgExisting \o ExistingIdOf(existing)
                                 \o MsgNew \o IdOfKnown(probe.other)
           ELSE /\ probe.exc = "none"
                /\ probe.result = _deep_merge_dict(probe.content,
                                                   generate_config(probe.other).config)

\* C7 as claimed -- for two backends neither of which is Unsupported,
\* is_compatible_with(a, b) is true iff their identifiers are equal or one of
\* them is the None variant.
C7_Original ==
    (probe.fn = "is_compatible_with"
        /\ ~IsUnsupported(probe.self) /\ ~IsUnsupported(probe.other)) =>
        (probe.bool <=> \/ get_identifier(probe.self) = get_identifier(probe.other)
                        \/ IsNoneVariant(probe.self)
                        \/ IsNoneVariant(probe.other))

\* C7 as amended -- for two backends neither of which is Unsupported,
\* is_compatible_with(a, b) is true iff a and b are the same concrete
\* backend; the None variant is compatible with nothing, as receiver and as
\* argument, itself included.
C7_Compatibility ==
    (probe.fn = "is_compatible_with"
        /\ ~IsUnsupported(probe.self) /\ ~IsUnsupported(probe.other)) =>
        (probe.bool <=> /\ IsKnown(probe.self)
                        /\ probe.self = probe.other)

\* The None variant was the receiver and a concrete backend the argument.
C7_Witness ==
    /\ probe.fn = "is_compatible_with"
    /\ IsNoneVariant(probe.self)
    /\ probe.other = HatchlingBackend
    /\ ~probe.bool

\* C8 -- is_compatible_with(a, b) is false whenever a or b is an Unsupported
\* backend, in either position, also when both are Unsupported with the
\* same raw identifier.
C8_UnsupportedNeverCompatible ==
    (probe.fn = "is_compatible_with"
        /\ (IsUnsupported(probe.self) \/ IsUnsupported(probe.other)))
        => ~probe.bool

\* Both backends were Unsupported with the same raw identifier.
C8_Witness ==
    /\ probe.fn = "is_compatible_with"
    /\ IsUnsupported(probe.self)
    /\ probe.self = probe.other
    /\ ~probe.bool

(* ===================== workspace state and detection =================== *)
WorkspaceStateEnum ==
    {"FRESH", "EXISTING_COMPLETE", "EXISTING_NO_PYPROJECT", "EXISTING_INCOMPLETE"}

\* The manifest holds a non-empty value at the key path.
NonEmptyAt(doc, key_path) ==
    \E e \in PathEntries(doc, <<>>) : e[1] = key_path /\ Truthy(e[2])

C12_NeverFails ==
    probe.fn = "detect_workspace_state" =>
        /\ probe.out \in WorkspaceStateEnum
        /\ (probe.bool /\ probe.file = MalformedFile)
               => probe.out = "EXISTING_INCOMPLETE"

\* An unparsable manifest beside the workspace file was classified.
C12_Witness ==
    /\ probe.fn = "detect_workspace_state"
    /\ probe.bool
    /\ probe.file = MalformedFile

\* C13 -- get_package_manager(s) resolves s to a package manager exactly
\* when s, compared without regard to case, is one of uv, hatch, poetry,
\* pdm, and then to the package manager of that name; every other string
\* fails with the unsupported-package-manager error that carries s and all
\* four valid identifiers.
C13_CaseInsensitive ==
    probe.fn = "get_package_manager" =>
        LET s == probe.arg IN
        IF \E pm \in PackageManagerEnum : pm_value(pm) = lower(s)
        THEN /\ probe.exc = "none"
             /\ probe.out \in PackageManagerEnum
             /\ pm_value(probe.out) = lower(s)
        ELSE /\ probe.exc = "ValueError"
             /\ Contains(probe.msg, MsgUnsupportedPm \o s)
             /\ \A pm \in PackageManagerEnum : Contains(probe.msg, pm_value(pm))

\* C14 -- The binding from package manager to build backend is fixed and
\* total: a package manager obtained from get_package_manager returns
\* hatchling for uv and hatch, poetry-core for poetry, pdm-backend for pdm,
\* and never the missing or an unsupported backend.
C14_BindingFixed ==
    probe.fn = "pm.get_build_backend" =>
        /\ probe.out \in PackageManagerEnum
        /\ probe.backend \in ConcreteBackends
        /\ probe.out \in {"uv", "hatch"} =>
               probe.backend = HatchlingBackend /\ get_identifier(probe.backend) = IdHatchling
        /\ probe.out = "poetry" =>
               probe.backend = PoetryCoreBackend /\ get_identifier(probe.backend) = IdPoetryCore
        /\ probe.out = "pdm" =>
               probe.backend = PdmBackend /\ get_identifier(probe.backend) = IdPdmBackend

\* The PDM package manager of the registry was asked for its backend.
C14_Witness ==
    /\ probe.fn = "pm.get_build_backend"
    /\ probe.arg = pm_value("pdm")
    /\ probe.out = "pdm"

\* The value the manifest holds at the key path is v.
HoldsAt(doc, key_path, v) == <<key_path, v>> \in PathEntries(doc, <<>>)

\* C15 -- End to end: from a manifest that holds only project.name = demo,
\* a merge with uv or hatch succeeds and gives a manifest with
\* build-system.build-backend = hatchling.build, build-system.requires
\* containing hatchling, tool.hatch.build.dev-mode-dirs =
\* [components, bases, development, .] and project.name still demo.
C15_EndToEnd ==
    \A i \in MergeCalls :
        (log[i].before = TomlFile(DemoDocument) /\ log[i].pm \in {"uv", "hatch"}) =>
            /\ log[i].exc = "none"
            /\ log[i].after.kind = "toml"
            /\ LET doc == log[i].after.doc IN
               /\ HoldsAt(doc, <<"build-system", "build-backend">>,
                          StrV(<<"h", "a", "t", "c", "h", "l", "i", "n", "g", ".", "b", "u", "i", "l", "d">>))
               /\ \E e \in PathEntries(doc, <<>>) :
                      /\ e[1] = <<"build-system", "requires">>
                      /\ e[2].kind = "list"
                      /\ \E k \in 1..Len(e[2].list) : e[2].list[k] = <<"h", "a", "t", "c", "h", "l", "i", "n", "g">>
               /\ HoldsAt(doc, <<"tool", "hatch", "build", "dev-mode-dirs">>,
                          ListV(<<<<"c", "o", "m", "p", "o", "n", "e", "n", "t", "s">>, <<"b", "a", "s", "e", "s">>, <<"d", "e", "v", "e", "l", "o", "p", "m", "e", "n", "t">>, <<".">>>>))
               /\ HoldsAt(doc, <<"project", "name">>, StrV(<<"d", "e", "m", "o">>))

\* The manifest with only the project name was merged with uv.
C15_Witness ==
    /\ Len(log) >= 1
    /\ log[1].op = "merge"
    /\ log[1].pm = "uv"
    /\ log[1].before = TomlFile(DemoDocument)
    /\ log[1].exc = "none"

\* The three signals of detection as the documentation states them.
ContextOf(sys_argv) ==
    IF /\ Len(sys_argv) >= 2
       /\ sys_argv[1] \in {"uv", "poetry", "pdm", "hatch"}
       /\ sys_argv[2] = "run"
    THEN sys_argv[1] ELSE "none"
LockOf(dir) ==
    IF "uv.lock" \in dir THEN "uv"
    ELSE IF "poetry.lock" \in dir THEN "poetry"
    ELSE IF "pdm.lock" \in dir THEN "pdm"
    ELSE "none"
HintOf(file) ==
    IF file.kind = "toml" /\ HasBackendString(file)
    THEN LET b == Classified(BackendString(file)) IN
         IF b = PoetryCoreBackend THEN "poetry"
         ELSE IF b = PdmBackend THEN "pdm"
         ELSE "none"
    ELSE "none"

\* C16 -- Detection ladder order: detection resolves to the first signal
\* that yields a result in the order command context, lock files, manifest
\* backend hint.  A command context is used whatever the lock files and the
\* manifest are, a lock file whatever the backend of the manifest is, and
\* the manifest decides only when both earlier signals yield nothing.
C16_LadderOrder ==
    probe.fn = "detected_for_prompt" =>
        probe.out = IF ContextOf(probe.argv) # "none" THEN ContextOf(probe.argv)
                    ELSE IF LockOf(probe.dir) # "none" THEN LockOf(probe.dir)
                    ELSE HintOf(probe.file)

\* No command context, uv.lock and a poetry-core manifest: uv.
C16_Witness ==
    /\ probe.fn = "detected_for_prompt"
    /\ ContextOf(probe.argv) = "none"
    /\ "uv.lock" \in probe.dir
    /\ HintOf(probe.file) = "poetry"
    /\ probe.out = "uv"

\* C17 -- Lock-file priority: for every combination of lock files,
\* detect_package_manager gives uv if uv.lock exists, else poetry if
\* poetry.lock exists, else pdm if pdm.lock exists; without these three it
\* gives nothing from the lock files, which without a manifest is no result.
C17_LockPriority ==
    probe.fn = "detect_package_manager" =>
        /\ "uv.lock" \in probe.dir => probe.out = "uv"
        /\ ("uv.lock" \notin probe.dir /\ "poetry.lock" \in probe.dir)
               => probe.out = "poetry"
        /\ ({"uv.lock", "poetry.lock"} \cap probe.dir = {} /\ "pdm.lock" \in probe.dir)
               => probe.out = "pdm"
        /\ ({"uv.lock", "poetry.lock", "pdm.lock"} \cap probe.dir = {}
            /\ probe.file = AbsentFile) => probe.out = "none"

\* uv.lock and poetry.lock are both present.
C17_Witness ==
    /\ probe.fn = "detect_package_manager"
    /\ {"uv.lock", "poetry.lock"} \subseteq probe.dir
    /\ probe.out = "uv"

\* C18 -- Manifest backend hint: without uv.lock, poetry.lock and pdm.lock,
\* detect_package_manager gives poetry for a manifest whose backend is
\* poetry-core, pdm for one whose backend is pdm-backend, and nothing when
\* the backend is hatchling, missing or unsupported, or when the manifest
\* is absent or cannot be read; it raises nothing.
C18_ManifestHint ==
    (probe.fn = "detect_package_manager"
     /\ {"uv.lock", "poetry.lock", "pdm.lock"} \cap probe.dir = {}) =>
        /\ probe.out \in PackageManagerEnum \cup {"none"}
        /\ probe.out = HintOf(probe.file)
        /\ probe.file.kind \in {"absent", "malformed"} => probe.out = "none"
        /\ (HasDetected(probe.file)
            /\ get_identifier(Detected(probe.file).backend) = <<"p", "o", "e", "t", "r", "y", "-", "c", "o", "r", "e">>)
               => probe.out = "poetry"
        /\ (HasDetected(probe.file)
            /\ get_identifier(Detected(probe.file).backend) = <<"p", "d", "m", "-", "b", "a", "c", "k", "e", "n", "d">>)
               => probe.out = "pdm"
        /\ (HasDetected(probe.file)
            /\ get_identifier(Detected(probe.file).backend)
                   \notin {<<"p", "o", "e", "t", "r", "y", "-", "c", "o", "r", "e">>, <<"p", "d", "m", "-", "b", "a", "c", "k", "e", "n", "d">>})
               => probe.out = "none"

\* A hatchling manifest without lock files gave no package manager.
C18_Witness ==
    /\ probe.fn = "detect_package_manager"
    /\ probe.dir \cap {"uv.lock", "poetry.lock", "pdm.lock"} = {}
    /\ HasDetected(probe.file)
    /\ Detected(probe.file).backend = HatchlingBackend
    /\ probe.out = "none"

(* ========================== workspace creation ========================= *)
\* The calls of a kind among the events of the run.
Calls(call) == {i \in 1..Len(cw.events) : cw.events[i].call = call}
Explicit == cw.pc # "idle" /\ cw.arg # <<>>

\* C19 -- Explicit mode has top priority: when create_workspace is given a
\* package manager argument it reconciles with exactly that package manager
\* and never checks interactivity, never runs a detection step, never
\* prompts and never prints the completion message, whatever lock files,
\* sys.argv and terminal are there.
C19_ExplicitPriority ==
    Explicit =>
        /\ cw.pc = "done"
        /\ cw.inputs = 0
        /\ \A i \in 1..Len(cw.events) :
               /\ cw.events[i].call = "merge_backend_into_pyproject"
               /\ pm_value(cw.events[i].arg) = cw.arg
        /\ \A pm \in PackageManagerEnum :
               cw.arg = pm_value(pm)
                   => cw.events = <<Event("merge_backend_into_pyproject", pm)>>
        /\ Calls("is_interactive_environment") = {}
        /\ Calls("detect_command_context") = {}
        /\ Calls("detect_package_manager") = {}
        /\ Calls("input") = {}
        /\ Calls("display_setup_completion_message") = {}

\* uv was given on a terminal, in a directory with poetry.lock, under
\* hatch run: the manifest was merged with uv.
C19_Witness ==
    /\ cw.pc = "done"
    /\ cw.arg = <<"u", "v">>
    /\ tty
    /\ "poetry.lock" \in lock_dir
    /\ argv[1] = "hatch"
    /\ cw.events = <<Event("merge_backend_into_pyproject", "uv")>>
    /\ cw.exc = "none"
    /\ pyproject # cw.before

\* C20 -- In explicit mode every reconciliation failure is fatal: when the
\* identifier is unsupported, when the manifest is missing or empty, and
\* when the existing backend conflicts with the one of the package manager,
\* the error leaves create_workspace, nothing is printed and the manifest
\* stays as it was.
C20_ExplicitFatal ==
    (Explicit /\ cw.pc = "done") =>
        /\ (\A pm \in PackageManagerEnum : pm_value(pm) # lower(cw.arg)) =>
               /\ cw.exc = "ValueError"
               /\ Contains(cw.msg, MsgUnsupportedPm \o cw.arg)
               /\ pyproject = cw.before
               /\ cw.events = <<>>
        /\ \A pm \in PackageManagerEnum :
               cw.arg = pm_value(pm) =>
                   /\ IsFresh(cw.before) =>
                          /\ cw.exc = "ValueError"
                          /\ Contains(cw.msg, <<"N", "o", " ", "p", "y", "p", "r", "o", "j", "e", "c", "t", ".", "t", "o", "m", "l", " ", "f", "o", "u", "n", "d">>)
                          /\ pyproject = cw.before
                   /\ Blocks(cw.before, pm) =>
                          /\ cw.exc = "ValueError"
                          /\ Contains(cw.msg, <<"C", "o", "n", "f", "l", "i", "c", "t", "i", "n", "g", " ", "b", "a", "c", "k", "e", "n", "d", " ", "c", "o", "n", "f", "i", "g", "u", "r", "a", "t", "i", "o", "n">>)
                          /\ pyproject = cw.before
                   /\ Calls("display_setup_completion_message") = {}

Interactive == cw.pc # "idle" /\ cw.arg = <<>> /\ tty
\* The errors of manifest creation and of reconciliation.
IsMissingError(exc, msg) == exc = "ValueError" /\ Contains(msg, <<"N", "o", " ", "p", "y", "p", "r", "o", "j", "e", "c", "t", ".", "t", "o", "m", "l", " ", "f", "o", "u", "n", "d">>)
IsConflictingError(exc, msg) == exc = "ValueError" /\ Contains(msg, <<"C", "o", "n", "f", "l", "i", "c", "t", "i", "n", "g", " ", "b", "a", "c", "k", "e", "n", "d", " ", "c", "o", "n", "f", "i", "g", "u", "r", "a", "t", "i", "o", "n">>)
IsCreationError(exc, msg) == exc = "PyProjectTOMLCreationError"

\* C21 -- In interactive mode every failure of manifest creation or of
\* reconciliation is recoverable: whether the manifest existed or not, the
\* missing-manifest, conflicting-backend and creation errors for the chosen
\* or detected package manager never leave create_workspace; the run
\* returns normally, and a failed creation or merge is followed by the
\* Error line and the completion message and leaves the manifest as it was
\* before the failed call.
C21_InteractiveRecoverable ==
    (Interactive /\ cw.pc = "done") =>
        /\ ~IsMissingError(cw.exc, cw.msg)
        /\ ~IsConflictingError(cw.exc, cw.msg)
        /\ ~IsCreationError(cw.exc, cw.msg)
        /\ Calls("print_error") # {} =>
               /\ cw.exc = "none"
               /\ Calls("display_setup_completion_message") # {}
               /\ cw.printed # <<>>

\* The first prompt of the run, and the result of the documented ladder for
\* the directory as create_workspace found it.
FirstInput == cw.events[CHOOSE i \in Calls("input") : \A j \in Calls("input") : i <= j]
LadderOf(sys_argv, dir, file) ==
    IF ContextOf(sys_argv) # "none" THEN ContextOf(sys_argv)
    ELSE IF LockOf(dir) # "none" THEN LockOf(dir)
    ELSE HintOf(file)
\* The detection steps were run before the first prompt, and the prompt
\* offers what they found or asks from scratch.
LadderBeforePrompt ==
    /\ Calls("input") # {}
    /\ \E i \in Calls("detect_command_context") : \A j \in Calls("input") : i < j
    /\ ContextOf(argv) = "none" =>
           \E i \in Calls("detect_package_manager") : \A j \in Calls("input") : i < j
    /\ LadderOf(argv, lock_dir, cw.before) # "none" =>
           /\ FirstInput.arg = "confirm"
           /\ cw.detected = LadderOf(argv, lock_dir, cw.before)
    /\ LadderOf(argv, lock_dir, cw.before) = "none" => FirstInput.arg = "proceed"

\* C22 as claimed -- In interactive mode without explicit package manager
\* create_workspace runs the detection ladder before asking the user, with
\* and without manifest; a detected package manager is offered for
\* confirmation and the user is asked from scratch only when no step of
\* the ladder yields a result.
C22_Original ==
    Interactive => LadderBeforePrompt

\* C22 -- In interactive mode without explicit package manager
\* create_workspace runs the detection ladder before asking the user when
\* pyproject.toml exists: a detected package manager is offered for
\* confirmation and the user is asked from scratch only when no step yields
\* a result.  When pyproject.toml does not exist no detection step runs,
\* whatever lock files and sys.argv are there, and the user is asked
\* whether to create the manifest.
C22_LadderWithManifest ==
    Interactive =>
        IF cw.before.kind # "absent" THEN LadderBeforePrompt
        ELSE /\ Calls("detect_command_context") = {}
             /\ Calls("detect_package_manager") = {}
             /\ Calls("input") # {}
             /\ FirstInput.arg = "proceed"
             /\ cw.detected = "none"

\* A manifest and poetry.lock, no command context: poetry was offered.
C22_Witness ==
    /\ Interactive
    /\ cw.before.kind = "toml"
    /\ ContextOf(argv) = "none"
    /\ lock_dir = {"poetry.lock"}
    /\ FirstInput.arg = "confirm"
    /\ cw.detected = "poetry"

NonInteractive == cw.pc # "idle" /\ cw.arg = <<>> /\ ~tty

\* C23 -- Non-interactive mode: without explicit package manager and
\* without terminal create_workspace prints the completion message exactly
\* once, never prompts, never creates a manifest and never changes an
\* existing one, whatever lock files, sys.argv and manifest are there; the
\* workspace file is the only file of the model it may write.
C23_NonInteractive ==
    NonInteractive =>
        /\ cw.pc = "done"
        /\ cw.exc = "none"
        /\ Cardinality(Calls("display_setup_completion_message")) = 1
        /\ Calls("input") = {}
        /\ cw.inputs = 0
        /\ Calls("create_pyproject_toml") = {}
        /\ Calls("merge_backend_into_pyproject") = {}
        /\ pyproject = cw.before
        /\ marker = IF cw.marker_before = "absent" THEN "template" ELSE cw.marker_before

\* No terminal, a manifest without build-system, uv.lock and uv run.
C23_Witness ==
    /\ NonInteractive
    /\ cw.pc = "done"
    /\ cw.before = TomlFile(DemoDocument)
    /\ "uv.lock" \in lock_dir
    /\ argv[1] = "uv"
    /\ pyproject = cw.before

\* C24 -- create_pyproject_toml: for uv, poetry and pdm the native init
\* command is run, and a non-zero exit, a timeout and a missing executable
\* each give PyProjectTOMLCreationError; for hatch a template manifest with
\* only project.name and project.version = 0.1.0 is written.
\* create_pyproject_toml itself never writes build-system or tool; what is
\* in the manifest beyond the template a native command wrote.  In the
\* create-then-configure flow the merge is attempted only after the
\* creation succeeded.
C24_CreateManifest ==
    /\ probe.fn = "create_pyproject_toml" =>
           /\ probe.out \in {"uv", "poetry", "pdm"} =>
                  /\ probe.outcome \in {"nonzero", "timeout", "notfound"} =>
                         /\ probe.exc = "PyProjectTOMLCreationError"
                         /\ probe.after = probe.file
                  /\ probe.outcome \in {"ok_plain", "ok_backend", "ok_nothing"} =>
                         probe.exc = "none"
                  /\ probe.after # probe.file =>
                         probe.outcome \in {"ok_plain", "ok_backend"}
           /\ probe.out = "hatch" =>
                  /\ probe.exc = "none"
                  /\ probe.after = TomlFile(<<Item("project", TableV(<<
                                       Item("name", StrV(path)),
                                       Item("version", StrV(<<"0", ".", "1", ".", "0">>))
                                       >>)) >>)
                  /\ Keys(probe.after.doc) = {"project"}
    /\ probe.fn = "configure" =>
           LET creates == {i \in 1..Len(probe.events) :
                              probe.events[i].call = "create_pyproject_toml"}
               merges == {i \in 1..Len(probe.events) :
                              probe.events[i].call = "merge_backend_into_pyproject"}
           IN /\ creates = {1}
              /\ \A i \in merges : i = 2
              /\ (probe.out # "hatch"
                  /\ probe.outcome \in {"nonzero", "timeout", "notfound"}) =>
                     /\ merges = {}
                     /\ probe.after = probe.file
              /\ (probe.out = "hatch"
                  \/ probe.outcome \in {"ok_plain", "ok_backend", "ok_nothing"}) =>
                     merges = {2}

\* The native init command of poetry timed out.
C24_Witness ==
    /\ probe.fn = "create_pyproject_toml"
    /\ probe.out = "poetry"
    /\ probe.outcome = "timeout"
    /\ probe.exc = "PyProjectTOMLCreationError"
    /\ probe.after = probe.file

(* ============================= scaffolding ============================= *)
\* C25 -- Scaffolding is idempotent and non-destructive: create_workspace
\* writes the workspace file only when it does not exist; over repeated
\* runs an existing workspace file and the files and directories that were
\* there keep their content, and a run on a workspace already created adds
\* no file.
C25_ScaffoldIdempotent ==
    \A i \in 1..Len(log) :
        /\ log[i].marker_before # "absent" => log[i].marker_after = log[i].marker_before
        /\ log[i].marker_before = "absent" => log[i].marker_after = "template"
        /\ \A f \in ScaffoldPaths :
               log[i].tree_before[f] # "absent"
                   => log[i].tree_after[f] = log[i].tree_before[f]
        /\ log[i].after = log[i].before
        /\ i > 1 => /\ log[i].tree_after = log[i].tree_before
                    /\ log[i].marker_after = log[i].marker_before

\* Two runs in a directory with a workspace file and a file of the user:
\* the first run made the components directory.
C25_Witness ==
    /\ Len(log) >= 2
    /\ log[1].marker_before = "user"
    /\ log[1].tree_before["bases/custom_file.py"] = "user"
    /\ log[1].tree_before["components"] = "absent"
    /\ log[1].tree_after["components"] = "generated"
    /\ marker = "user"

(* ============================== deep merge ============================= *)
\* The result r is the deep merge of target t and source s as documented,
\* at every level of nesting.
RECURSIVE IsDeepMerge(_, _, _)
IsDeepMerge(t, s, r) ==
    /\ Keys(r) = Keys(t) \cup Keys(s)
    /\ \A i, j \in 1..Len(r) : r[i].key = r[j].key => i = j
    /\ \A k \in Keys(t) \ Keys(s) : Get(r, k) = Get(t, k)
    /\ \A k \in Keys(s) :
           IF k \notin Keys(t) THEN Get(r, k) = Get(s, k)
           ELSE IF Get(t, k).kind = "table" /\ Get(s, k).kind = "table"
           THEN /\ Get(r, k).kind = "table"
                /\ IsDeepMerge(Get(t, k).items, Get(s, k).items, Get(r, k).items)
           ELSE Get(r, k) = Get(s, k)

\* C26 -- _deep_merge_dict over nested tables: a key of the source that is
\* absent in the target is inserted with the source value; when both values
\* are tables the rule applies to them; in every other case (str, list, a
\* table against a value that is none, in either direction) the source
\* value replaces the target value.  Keys of the target that the source
\* does not hold at the same level are kept unchanged.
C26_DeepMerge ==
    probe.fn = "_deep_merge_dict" =>
        IsDeepMerge(probe.content, probe.source, probe.result)

\* A table of the target met a str of the source, and a key beside it was
\* kept.
C26_Witness ==
    /\ probe.fn = "_deep_merge_dict"
    /\ HasKey(probe.content, "a") /\ HasKey(probe.source, "a")
    /\ Get(probe.content, "a").kind = "table"
    /\ Get(probe.content, "a").items # <<>>
    /\ Get(probe.source, "a").kind = "str"
    /\ HasKey(probe.content, "b") /\ ~HasKey(probe.source, "b")
    /\ Get(probe.result, "a") = Get(probe.source, "a")
    /\ Get(probe.result, "b") = Get(probe.content, "b")

(* ================================ prompts ============================== *)
Yes == {<<"y">>, <<"y", "e", "s">>}
No == {<<"n">>, <<"n", "o">>}
\* The events a step of the run added.
Added == SubSeq(cw'.events, Len(cw.events) + 1, Len(cw'.events))
\* The step returned the package manager from the prompt: create_workspace
\* went on with it.
Returned(pm) ==
    /\ cw'.pc = "done"
    /\ Added # <<>>
    /\ Added[1].call \in {"create_pyproject_toml", "merge_backend_into_pyproject"}
    /\ Added[1].arg = pm
\* The step returned None from the prompt.
ReturnedNone ==
    /\ cw'.pc = "done"
    /\ \A i \in 1..Len(Added) : Added[i].call = "display_setup_completion_message"
\* The step asked a question and waits for the answer.
Asked(question) ==
    /\ cw'.pc = question
    /\ Added = <<Event("input", question)>>
    /\ pyproject' = pyproject

\* C27 -- The prompt loops end only with a valid outcome.  At the
\* confirmation of prompt_for_pyproject_creation_and_configuration y or yes
\* leads to the choice question, n or no returns None without asking for a
\* package manager, and any other answer repeats the question; at the
\* choice the first answer that, trimmed and in lower case, is uv, hatch,
\* poetry or pdm is returned, any other answer repeats the question; with a
\* detected package manager y, yes and the empty answer return the detected
\* one, n and no lead to the choice question, any other answer repeats the
\* question.
C27_PromptLoops ==
    [][ (cw.pc \in {"confirm", "proceed", "choice"} /\ cw' # cw) =>
          LET response == lower(strip(cw'.answer)) IN
          /\ cw.pc = "proceed" =>
                 /\ response \in Yes => Asked("choice")
                 /\ response \in No => ReturnedNone
                 /\ response \notin Yes \cup No => Asked("proceed")
          /\ cw.pc = "choice" =>
                 /\ \A pm \in PackageManagerEnum : response = pm_value(pm) => Returned(pm)
                 /\ (\A pm \in PackageManagerEnum : response # pm_value(pm))
                        => Asked("choice")
          /\ cw.pc = "confirm" =>
                 /\ response \in Yes \cup {<<>>} => Returned(cw.detected)
                 /\ response \in No => Asked("choice")
                 /\ response \notin Yes \cup No \cup {<<>>} => Asked("confirm")
      ]_vars

\* Without manifest: an invalid answer to the confirmation, then y, then
\* PDM with a blank before it.
C27_Witness ==
    /\ cw.pc = "done"
    /\ cw.branch = "missing"
    /\ cw.inputs = 3
    /\ cw.answer = <<" ", "P", "D", "M">>
    /\ Cardinality({i \in Calls("input") : cw.events[i].arg = "proceed"}) = 2
    /\ \E i \in Calls("create_pyproject_toml") : cw.events[i].arg = "pdm"

(* ============================== round trip ============================= *)
\* C28 -- After every successful merge_backend_into_pyproject of a package
\* manager, detect_build_backend on the manifest that was written returns
\* the backend bound to that package manager.
C28_RoundTrip ==
    \A i \in 1..Len(log) :
        (log[i].op = "merge" /\ log[i].exc = "none") =>
            /\ log[i].after.kind = "toml"
            /\ detect_build_backend(log[i].after.doc)
                   = [exc |-> "none", backend |-> pm_get_build_backend(log[i].pm)]

\* pdm merged into a manifest without build backend, then poetry refused.
C28_Witness ==
    /\ Len(log) = 2
    /\ log[1].op = "merge" /\ log[1].pm = "pdm" /\ log[1].exc = "none"
    /\ log[1].before.kind = "toml"
    /\ detect_build_backend(log[1].before.doc).backend = NoBuildBackend
    /\ detect_build_backend(log[1].after.doc).backend = PdmBackend
    /\ log[2].op = "merge" /\ log[2].pm = "poetry" /\ log[2].exc # "none"

(* ============================== stability ============================== *)
\* What detection says about a manifest file: the backend, or the failure.
DetectedIn(file) ==
    IF file.kind = "toml" THEN detect_build_backend(file.doc)
    ELSE [exc |-> file.kind, backend |-> NoBuildBackend]
\* The merge logged at i left the detected backend as it was, or took it
\* from None to the backend bound to its package manager.
StableAt(i) ==
    \/ DetectedIn(log[i].after) = DetectedIn(log[i].before)
    \/ /\ DetectedIn(log[i].before) = [exc |-> "none", backend |-> NoBuildBackend]
       /\ DetectedIn(log[i].after)
              = [exc |-> "none", backend |-> pm_get_build_backend(log[i].pm)]

\* C29 -- Over any sequence of merge_backend_into_pyproject calls on one
\* manifest a detected backend that is known or Unsupported never changes;
\* the only change a merge causes is from None to the backend bound to the
\* requested package manager.
C29_BackendStable ==
    \A i \in 1..Len(log) : log[i].op = "merge" => StableAt(i)

\* The same, for every manifest whose build-backend is not the string "none".
C29_StableExceptNoneLiteral ==
    \A i \in 1..Len(log) :
        (/\ log[i].op = "merge"
         /\ DetectedIn(log[i].before).backend # UnsupportedBuildBackend(IdNone))
            => StableAt(i)

(* ======================== manifest without marker ====================== *)
\* C30 -- detect_workspace_state always returns one of the four states, and
\* when the manifest exists but the workspace marker does not it returns
\* FRESH whatever the manifest holds: a complete build system, an incomplete
\* one, or text that does not parse.
C30_FreshWithoutMarker ==
    probe.fn = "detect_workspace_state" =>
        /\ probe.out \in WorkspaceStateEnum
        /\ (~probe.bool /\ probe.file.kind # "absent") => probe.out = "FRESH"

\* No marker, and a manifest that with a marker would be EXISTING_COMPLETE.
C30_Witness ==
    /\ probe.fn = "detect_workspace_state"
    /\ ~probe.bool
    /\ probe.file.kind = "toml"
    /\ detect_workspace_state(TRUE, probe.file) = "EXISTING_COMPLETE"
    /\ probe.out = "FRESH"

====
